---- MODULE Spec2Model ----
(***************************************************************************)
(* Model of the conversational agent core: the Orchestrator chat loop      *)
(* (engine/orchestrator.py), the WorkflowRunner FSM (engine/workflow.py)   *)
(* and the gateway's per-socket message loop (gateway/server.py).          *)
(*                                                                         *)
(* Texts are sequences of lexemes (strings).  A lexeme stands for a        *)
(* maximal piece of text the code treats as a unit: a think tag, a word,   *)
(* a hedging phrase, an embedded `name {json}` tool call.                  *)
(***************************************************************************)
EXTENDS Integers, Sequences, FiniteSets, TLC

VARIABLES
    cfg,        \* OrchestratorConfig of the one Orchestrator
    messages,   \* Orchestrator.messages (the conversation history)
    call,       \* locals of the Orchestrator.chat call in flight (and its caller)
    nChats,     \* number of chat calls started so far
    wf,         \* locals of the WorkflowRunner._execute_workflow call
    events,     \* workflow events handed to the callbacks, in emission order
    gw,         \* per-socket state of handle_ws and its agent-reply tasks
    lib         \* arguments and results of the library function under test

vars == <<cfg, messages, call, nChats, wf, events, gw, lib>>

\* no library function is under test
IdleLib == [pc |-> "idle"]

----------------------------------------------------------------------------
(* Bounds of the model *)

MaxChats == 3        \* chat calls per behaviour
MaxIterBound == 2    \* max_iterations ranges over 1..MaxIterBound
MaxHistBound == 3    \* max_history ranges over 1..MaxHistBound
MaxRuns == 1         \* workflow executions per behaviour
MaxQueries == 2      \* length of the JSON arrays the model returns
MaxClientMsgs == 3   \* client messages per WebSocket session

----------------------------------------------------------------------------
(* Texts *)

THINK_OPEN == "<think>"
THINK_CLOSE == "</think>"

\* DEFAULT_HEDGING_PHRASES (two of its members)
HedgingPhrases == {"as an ai", "my training data"}

\* str.lower() on a lexeme
Lower(tok) == IF tok = "As an AI" THEN "as an ai" ELSE tok

\* DEFAULT_TOOL_ALIASES
ToolAliases ==
    [n \in {"gc_search", "search", "web_search", "check_calendar", "calendar",
            "get_calendar", "search_notes", "notes", "get_notes"} |->
        CASE n \in {"gc_search", "search", "web_search"} -> "web_search"
          [] n \in {"check_calendar", "calendar", "get_calendar"} -> "check_calendar"
          [] OTHER -> "search_notes"]

\* Lexemes that _TEXT_TOOL_RE matches: group(1) is the name, group(2) the
\* braces; json is whether json.loads accepts group(2).
TextToolLexemes ==
    [t \in {"GC_Search {\"query\": \"austin weather\"}",
            "calendar {\"date\": \"today\"}",
            "lookup {\"query\": \"austin weather\"}",
            "search {query: austin}"} |->
        CASE t = "GC_Search {\"query\": \"austin weather\"}" ->
                 [raw |-> "GC_Search", lower |-> "gc_search", json |-> TRUE,
                  args |-> "austin weather"]
          [] t = "calendar {\"date\": \"today\"}" ->
                 [raw |-> "calendar", lower |-> "calendar", json |-> TRUE,
                  args |-> "today"]
          [] t = "lookup {\"query\": \"austin weather\"}" ->
                 [raw |-> "lookup", lower |-> "lookup", json |-> TRUE,
                  args |-> "austin weather"]
          [] OTHER ->
                 [raw |-> "search", lower |-> "search", json |-> FALSE,
                  args |-> ""]]

FALLBACK_REPLY == <<"I wasn't able to complete that request.">>

DIRECTIVE == <<"You already searched the web and received results above. Use those results to answer my question directly. Do not say you cannot access real-time data - you just did.">>

Msg(role, content) == [role |-> role, content |-> content, tool_calls |-> <<>>]

AssistantCalls(content, calls) ==
    [role |-> "assistant", content |-> content, tool_calls |-> calls]

ToolCall(name, args) == [name |-> name, args |-> args]

\* First index >= from at which tok occurs in text, 0 when there is none
RECURSIVE IndexFrom(_, _, _)
IndexFrom(text, tok, from) ==
    IF from > Len(text) THEN 0
    ELSE IF text[from] = tok THEN from
    ELSE IndexFrom(text, tok, from + 1)

\* str.strip(): drop leading and trailing whitespace lexemes
RECURSIVE Strip(_)
Strip(text) ==
    IF text = <<>> THEN text
    ELSE IF Head(text) = " " THEN Strip(Tail(text))
    ELSE IF text[Len(text)] = " " THEN Strip(SubSeq(text, 1, Len(text) - 1))
    ELSE text

\* _THINK_RE.sub("", text): leftmost non-greedy <think>...</think> blocks removed
RECURSIVE ThinkSub(_)
ThinkSub(text) ==
    LET i == IndexFrom(text, THINK_OPEN, 1)
        j == IF i = 0 THEN 0 ELSE IndexFrom(text, THINK_CLOSE, i + 1)
    IN  IF i = 0 \/ j = 0 THEN text
        ELSE SubSeq(text, 1, i - 1) \o ThinkSub(SubSeq(text, j + 1, Len(text)))

_strip_thinking(text) == Strip(ThinkSub(text))

\* the parser keeps the name the model wrote
RECURSIVE _parse_text_tool_calls_rawName(_)
_parse_text_tool_calls_rawName(text) ==
    IF text = <<>> THEN <<>>
    ELSE LET tok == Head(text)
             rest == _parse_text_tool_calls_rawName(Tail(text))
         IN  IF tok \notin DOMAIN TextToolLexemes THEN rest
             ELSE LET m == TextToolLexemes[tok]
                  IN  IF m.lower \notin DOMAIN ToolAliases THEN rest
                      ELSE IF ~m.json THEN rest
                      ELSE <<ToolCall(m.lower, m.args)>> \o rest

\* Orchestrator._parse_text_tool_calls
RECURSIVE _parse_text_tool_calls(_)
_parse_text_tool_calls(text) ==
    IF text = <<>> THEN <<>>
    ELSE LET tok == Head(text)
             rest == _parse_text_tool_calls(Tail(text))
         IN  IF tok \notin DOMAIN TextToolLexemes THEN rest
             ELSE LET m == TextToolLexemes[tok]
                  IN  IF m.lower \notin DOMAIN ToolAliases THEN rest
                      ELSE IF ~m.json THEN rest
                      ELSE <<ToolCall(ToolAliases[m.lower], m.args)>> \o rest

\* Orchestrator._reply_is_hedging
_reply_is_hedging(reply) ==
    \E k \in 1..Len(reply) : Lower(reply[k]) \in HedgingPhrases

----------------------------------------------------------------------------
(* History *)

IsToolMsg(m) == m.role = "tool"
HasToolCalls(m) == m.tool_calls # <<>>

\* first while loop of _trim_history; cut is the Python (0-based) index
RECURSIVE AdvancePastTools(_, _)
AdvancePastTools(m, cut) ==
    IF cut < Len(m) /\ IsToolMsg(m[cut + 1])
    THEN AdvancePastTools(m, cut + 1)
    ELSE cut

\* inner while loop of _trim_history
RECURSIVE RewindPastTools(_, _)
RewindPastTools(m, cut) ==
    IF cut > 0 /\ IsToolMsg(m[cut])
    THEN RewindPastTools(m, cut - 1)
    ELSE cut

\* _trim_history without its first while loop
TrimCut_noAdvance(m, limit) ==
    LET cut0 == Len(m) - limit
    IN  IF cut0 > 0 /\ HasToolCalls(m[cut0])
        THEN RewindPastTools(m, cut0 - 1)
        ELSE cut0

TrimCut(m, limit) ==
    LET cut0 == Len(m) - limit
        cut1 == AdvancePastTools(m, cut0)
    IN  IF cut1 > 0 /\ HasToolCalls(m[cut1])
        THEN RewindPastTools(m, cut1 - 1)
        ELSE cut1

\* _trim_history as a plain tail slice
_trim_history_slice(m, limit) ==
    IF Len(m) <= limit THEN m
    ELSE SubSeq(m, Len(m) - limit + 1, Len(m))

\* Orchestrator._trim_history
_trim_history(m, limit) ==
    IF Len(m) <= limit THEN m
    ELSE SubSeq(m, TrimCut(m, limit) + 1, Len(m))

----------------------------------------------------------------------------
(* Orchestrator.chat, cut at its suspension points.  Every operator takes   *)
(* the call's locals c, the history m and the configuration cf, and yields  *)
(* the locals and the history at the next suspension point.                 *)

\* an entry of the call's trace: an event handed to a callback, a provider
\* call, a dispatch, or the append of a tool result to the history
Tr(ev, arg, idx) == [ev |-> ev, arg |-> arg, idx |-> idx]

IdleCall ==
    [pc |-> "idle", user_input |-> <<>>, iteration |-> 0, text |-> <<>>,
     tool_calls |-> <<>>, i |-> 0, reply |-> <<>>, search_performed |-> FALSE,
     pre |-> <<>>, grp |-> <<>>, dlog |-> <<>>, gens |-> 0,
     raisedBy |-> "", gensAfter |-> 0, sent |-> <<>>,
     exhausted |-> FALSE, lastText |-> <<>>,
     sn |-> "", gensSn |-> 0, regenText |-> <<>>,
     retried |-> FALSE, hBefore |-> <<>>, genText |-> <<>>, structured |-> FALSE,
     plainGens |-> 0, trace |-> <<>>]

\* engine.search.is_configured
search_is_configured == TRUE

\* One provider call is being issued by call c (history variables only);
\* outside the loop (pc other than "gen") it is a plain llm_generate call
CountGen(c) ==
    [c EXCEPT !.gens = @ + 1,
              !.gensAfter = IF c.raisedBy = "main" THEN @ + 1 ELSE @,
              !.plainGens = IF c.pc = "gen" THEN @ ELSE @ + 1,
              !.trace = Append(@, Tr("generate", "", 0))]

\* chat, lines 190-191: append the user message, trim
ChatEnter(m, cf, x) ==
    LET pre == Append(m, Msg("user", x))
    IN  [c |-> [IdleCall EXCEPT !.pc = "begun", !.user_input = x, !.pre = pre],
         m |-> _trim_history(pre, cf.max_history)]

\* chat, lines 277-281: record the final reply and return
Finish(c, m) ==
    [c |-> [c EXCEPT !.pc = "returned"],
     m |-> IF c.reply # <<>> THEN Append(m, Msg("assistant", c.reply)) ELSE m]

\* chat, lines 262-271: the safety-net condition
SafetyCheck(c, m, cf) ==
    IF /\ ~c.search_performed
       /\ cf.enable_hedging_safety_net
       /\ cf.tools
       /\ _reply_is_hedging(c.reply)
       /\ search_is_configured
    THEN [c |-> [c EXCEPT !.pc = "sn_extract"], m |-> m]
    ELSE Finish(c, m)

\* chat, lines 257-260 and _post_tool_hedging_retry up to its generation call
PostLoop(c, m, cf) ==
    IF c.search_performed /\ _reply_is_hedging(c.reply)
    THEN [c |-> [c EXCEPT !.pc = "retry", !.retried = TRUE, !.hBefore = m,
                          !.trace = Append(@, Tr("status", "thinking", 0))],
          m |-> Append(m, Msg("user", DIRECTIVE))]
    ELSE SafetyCheck(c, m, cf)

\* chat, lines 216-234: a tool-use generation returned (rawText, rawCalls)
GenReturn(c, m, cf, rawText, rawCalls) ==
    LET text1 == _strip_thinking(rawText)
        parsed == IF rawCalls = <<>> /\ text1 # <<>>
                  THEN _parse_text_tool_calls(text1) ELSE <<>>
        tool_calls == IF parsed # <<>> THEN parsed ELSE rawCalls
        text == IF parsed # <<>> THEN <<>> ELSE text1
        c1 == [CountGen(c) EXCEPT !.text = text, !.tool_calls = tool_calls,
                                  !.genText = text1,
                                  !.structured = (rawCalls # <<>>),
                                  !.lastText = IF text # <<>> THEN text ELSE @]
    IN  IF tool_calls = <<>>
        THEN PostLoop([c1 EXCEPT !.reply = text], m, cf)
        ELSE LET am == AssistantCalls(text, tool_calls)
             IN  [c |-> [c1 EXCEPT !.pc = "dispatch", !.i = 0,
                                   !.grp = Append(@, am)],
                  m |-> Append(m, am)]

\* a failed generation is tried again instead of being raised
GenRaise_retries(c, m) ==
    [c |-> [CountGen(c) EXCEPT !.raisedBy = "main"], m |-> m]

\* chat, lines 273-275: a tool-use generation raised
GenRaise(c, m) ==
    [c |-> [CountGen(c) EXCEPT !.pc = "raised", !.raisedBy = "main"], m |-> m]

\* Orchestrator._dispatch; outcome is what the dispatch function does
_dispatch(cf, name, outcome) ==
    IF ~cf.dispatch
    THEN <<"Error: no dispatch function configured for tool", name>>
    ELSE IF outcome = "raise"
    THEN <<"Error executing", name, "RuntimeError", "boom">>
    ELSE <<"result of", name>>

\* the for-else falls back on the last non-empty text of the whole call
LoopExhausted_lastText(c, m, cf) ==
    PostLoop([c EXCEPT !.exhausted = TRUE,
                       !.reply = IF c.lastText # <<>> THEN c.lastText
                                 ELSE FALLBACK_REPLY],
             m, cf)

\* chat, lines 253-255: the for-else, then the code after the loop
LoopExhausted(c, m, cf) ==
    PostLoop([c EXCEPT !.exhausted = TRUE,
                       !.reply = IF c.text # <<>> THEN c.text ELSE FALLBACK_REPLY],
             m, cf)

\* the loop takes one turn more than max_iterations
NextIteration_oneMore(c, m, cf) ==
    IF c.iteration + 1 < cf.max_iterations + 1
    THEN [c |-> [c EXCEPT !.pc = "gen", !.iteration = @ + 1], m |-> m]
    ELSE LoopExhausted([c EXCEPT !.iteration = @ + 1], m, cf)

\* chat, lines 205 and 253-255: the group is complete, the loop takes its
\* next turn or runs out
NextIteration(c, m, cf) ==
    IF c.iteration + 1 < cf.max_iterations
    THEN [c |-> [c EXCEPT !.pc = "gen", !.iteration = @ + 1], m |-> m]
    ELSE LoopExhausted([c EXCEPT !.iteration = @ + 1], m, cf)

\* _dispatch without its try/except: the dispatch function's exception
\* leaves chat
DispatchStep_propagates(c, m, cf, outcome) ==
    LET tc == c.tool_calls[c.i + 1]
        tm == Msg("tool", _dispatch(cf, tc.name, outcome))
        c1 == [c EXCEPT !.search_performed = @ \/ (tc.name = "web_search"),
                        !.i = @ + 1,
                        !.grp = Append(@, tm),
                        !.dlog = Append(@, [name |-> tc.name,
                                            ok |-> cf.dispatch /\ outcome = "ok"])]
    IN  IF cf.dispatch /\ outcome = "raise"
        THEN [c |-> [c EXCEPT !.pc = "raised"], m |-> m]
        ELSE IF c1.i < Len(c.tool_calls)
        THEN [c |-> c1, m |-> Append(m, tm)]
        ELSE NextIteration(c1, Append(m, tm), cf)

\* the tool_call event is sent after the dispatch returned
DispatchStep_notifiesAfter(c, m, cf, outcome) ==
    LET tc == c.tool_calls[c.i + 1]
        tm == Msg("tool", _dispatch(cf, tc.name, outcome))
        c1 == [c EXCEPT !.search_performed = @ \/ (tc.name = "web_search"),
                        !.i = @ + 1,
                        !.grp = Append(@, tm),
                        !.dlog = Append(@, [name |-> tc.name,
                                            ok |-> cf.dispatch /\ outcome = "ok"]),
                        !.trace = @ \o << Tr("dispatch", tc.name, c.i),
                                          Tr("tool_call", tc.name, c.i),
                                          Tr("result", tc.name, c.i) >>]
    IN  IF c1.i < Len(c.tool_calls)
        THEN [c |-> c1, m |-> Append(m, tm)]
        ELSE NextIteration(c1, Append(m, tm), cf)

\* chat, lines 236-252 for the call at index c.i, then the loop's next turn
DispatchStep(c, m, cf, outcome) ==
    LET tc == c.tool_calls[c.i + 1]
        tm == Msg("tool", _dispatch(cf, tc.name, outcome))
        c1 == [c EXCEPT !.search_performed = @ \/ (tc.name = "web_search"),
                        !.i = @ + 1,
                        !.grp = Append(@, tm),
                        !.dlog = Append(@, [name |-> tc.name,
                                            ok |-> cf.dispatch /\ outcome = "ok"]),
                        !.trace = @ \o << Tr("tool_call", tc.name, c.i),
                                          Tr("dispatch", tc.name, c.i),
                                          Tr("result", tc.name, c.i) >>]
    IN  IF c1.i < Len(c.tool_calls)
        THEN [c |-> c1, m |-> Append(m, tm)]
        ELSE NextIteration(c1, Append(m, tm), cf)

\* _post_tool_hedging_retry without the pop of line 488
RetryReturn_keepsDirective(c, m, cf, text) ==
    SafetyCheck([CountGen(c) EXCEPT !.reply = text], m, cf)

\* the directive goes, and with it the message before it
RetryReturn_dropsTwo(c, m, cf, text) ==
    SafetyCheck([CountGen(c) EXCEPT !.reply = text],
                SubSeq(m, 1, Len(m) - 2), cf)

\* a regenerated reply that hedges is retried again
RetryReturn_retriesAgain(c, m, cf, text) ==
    IF m = <<>>
    THEN [c |-> [CountGen(c) EXCEPT !.pc = "raised", !.raisedBy = "pop"], m |-> m]
    ELSE PostLoop([CountGen(c) EXCEPT !.reply = text],
                  SubSeq(m, 1, Len(m) - 1), cf)

\* _post_tool_hedging_retry, lines 484-489: the regeneration returned
RetryReturn(c, m, cf, text) ==
    IF m = <<>>
    THEN [c |-> [CountGen(c) EXCEPT !.pc = "raised", !.raisedBy = "pop"], m |-> m]
    ELSE SafetyCheck([CountGen(c) EXCEPT !.reply = text],
                     SubSeq(m, 1, Len(m) - 1), cf)

\* _post_tool_hedging_retry: the regeneration raised, chat re-raises
RetryRaise(c, m) ==
    [c |-> [CountGen(c) EXCEPT !.pc = "raised", !.raisedBy = "retry"], m |-> m]

\* _extract_search_query: returns a query whether the provider answers or not
ExtractDone(c, m) ==
    [c |-> [CountGen(c) EXCEPT !.pc = "sn_search",
                               !.trace = Append(@, Tr("status", "searching", 0))],
     m |-> m]

\* _safety_net_search, lines 439-441 and 461-463
SearchDone(c, m, outcome) ==
    LET c1 == [c EXCEPT !.sn = outcome, !.gensSn = c.gens]
    IN  IF outcome = "found"
        THEN [c |-> [c1 EXCEPT !.pc = "sn_regen",
                               !.trace = Append(@, Tr("status", "thinking", 0))],
              m |-> m]
        ELSE Finish(c1, m)

\* the message that _safety_net_search puts before its follow-up generation
SYNTHETIC == <<"I searched the web and found:", "results", "I'll use these results to answer.">>

\* the synthetic message is appended to the history, not to a copy of it
RegenDone_storesSynthetic(c, m, outcome, text) ==
    LET safety_reply == IF outcome = "raise" THEN <<>> ELSE text
    IN  Finish([CountGen(c) EXCEPT
                    !.regenText = safety_reply,
                    !.reply = IF safety_reply # <<>> THEN safety_reply ELSE @],
               Append(m, Msg("assistant", SYNTHETIC)))

\* _safety_net_search, lines 449-463, and chat, lines 270-271
RegenDone(c, m, outcome, text) ==
    LET safety_reply == IF outcome = "raise" THEN <<>> ELSE text
    IN  Finish([CountGen(c) EXCEPT
                    !.regenText = safety_reply,
                    !.reply = IF safety_reply # <<>> THEN safety_reply ELSE @],
               m)

----------------------------------------------------------------------------
(* Workflow templates and the keyword router (engine/workflow.py) *)

WfStep(id, step_type, tool_name) ==
    [id |-> id, step_type |-> step_type, tool_name |-> tool_name]

\* declaration order of WORKFLOW_TEMPLATES
TemplateOrder == <<"research_compare", "deep_research", "fact_check">>

\* WORKFLOW_TEMPLATES: min_query_words and the steps of each template
WORKFLOW_TEMPLATES ==
    [w \in {"research_compare", "deep_research", "fact_check"} |->
        CASE w = "research_compare" ->
                [min_query_words |-> 6,
                 steps |-> << WfStep("initial_lookup", "llm", "web_search"),
                              WfStep("decompose", "llm", ""),
                              WfStep("search_each", "loop", "web_search"),
                              WfStep("synthesize", "llm", "") >>]
          [] w = "deep_research" ->
                [min_query_words |-> 5,
                 steps |-> << WfStep("initial_search", "llm", "web_search"),
                              WfStep("evaluate_gaps", "llm", ""),
                              WfStep("targeted_search", "loop", "web_search"),
                              WfStep("synthesize", "llm", "") >>]
          [] OTHER ->
                [min_query_words |-> 6,
                 steps |-> << WfStep("extract_claim", "llm", ""),
                              WfStep("search_evidence", "direct", "web_search"),
                              WfStep("search_counter", "direct", "web_search"),
                              WfStep("verdict", "llm", "") >>]]

StepIdsOf(w) ==
    [k \in 1..Len(WORKFLOW_TEMPLATES[w].steps) |-> WORKFLOW_TEMPLATES[w].steps[k].id]

AllStepIds ==
    UNION { {StepIdsOf(w)[k] : k \in 1..Len(StepIdsOf(w))} : w \in DOMAIN WORKFLOW_TEMPLATES }

\* What the router sees of an input: len(user_input.split()) and the
\* templates whose trigger_pattern finds a match in it
InputFacts ==
    [x \in {"compare the top 3 S&P 500 companies by market cap",
            "tell me about the research on fusion energy",
            "is it true that water boils at 90 C",
            "compare and verify both",
            "compare and verify both claims about fusion",
            "research both of these laptops",
            "hello there",
            "what is the weather in Austin"} |->
        CASE x = "compare the top 3 S&P 500 companies by market cap" ->
                [words |-> 10, matches |-> {"research_compare"}]
          [] x = "tell me about the research on fusion energy" ->
                [words |-> 8, matches |-> {"deep_research"}]
          [] x = "is it true that water boils at 90 C" ->
                [words |-> 10, matches |-> {"fact_check"}]
          [] x = "compare and verify both" ->
                [words |-> 4, matches |-> {"research_compare", "fact_check"}]
          [] x = "compare and verify both claims about fusion" ->
                [words |-> 7, matches |-> {"research_compare", "fact_check"}]
          [] x = "research both of these laptops" ->
                [words |-> 5, matches |-> {"research_compare", "deep_research"}]
          [] x = "hello there" ->
                [words |-> 2, matches |-> {}]
          [] OTHER ->
                [words |-> 6, matches |-> {}]]

NoWorkflow == "none"

\* the router without the word-count test: the first matching pattern wins
RECURSIVE RouteFrom_patternOnly(_, _)
RouteFrom_patternOnly(x, k) ==
    IF k > Len(TemplateOrder) THEN NoWorkflow
    ELSE IF TemplateOrder[k] \in InputFacts[x[1]].matches THEN TemplateOrder[k]
    ELSE RouteFrom_patternOnly(x, k + 1)

\* _route_by_keywords: the loop over the templates from position k on
RECURSIVE RouteFrom(_, _)
RouteFrom(x, k) ==
    IF k > Len(TemplateOrder) THEN NoWorkflow
    ELSE LET w == TemplateOrder[k]
         IN  IF InputFacts[x[1]].words < WORKFLOW_TEMPLATES[w].min_query_words
             THEN RouteFrom(x, k + 1)
             ELSE IF w \in InputFacts[x[1]].matches THEN w
             ELSE RouteFrom(x, k + 1)

_route_by_keywords(x) == RouteFrom(x, 1)

\* WorkflowContext and the locals of _execute_workflow before a call
IdleWf ==
    [pc |-> "idle", workflow_id |-> NoWorkflow, user_query |-> <<>>,
     step_idx |-> 0, loop_i |-> 0, results |-> <<>>,
     step_results |-> [id \in AllStepIds |-> <<>>],
     search_queries |-> <<>>, search_results |-> <<>>, final_answer |-> <<>>,
     reply |-> <<>>, aborted |-> FALSE, error |-> "",
     hist0 |-> <<>>, ran |-> <<>>, loopDone |-> FALSE,
     claimObj |-> [kind |-> "none", items |-> <<>>]]

----------------------------------------------------------------------------
(* What the environment can answer *)

UserInputs == {<<"hello there">>, <<"what is the weather in Austin">>}

WorkflowInputs == {<<"compare the top 3 S&P 500 companies by market cap">>,
                   <<"tell me about the research on fusion energy">>,
                   <<"is it true that water boils at 90 C">>}

WebSearchCall == ToolCall("web_search", "austin weather")
CalendarCall == ToolCall("check_calendar", "today")

\* (text, tool_calls) pairs a tool-use generation can return
ToolUseResponses ==
    { [text |-> <<>>, calls |-> <<>>],
      [text |-> <<THINK_OPEN, "hm", THINK_CLOSE, "It is sunny.">>, calls |-> <<>>],
      [text |-> <<"As an AI">>, calls |-> <<>>],
      [text |-> <<"GC_Search {\"query\": \"austin weather\"}",
                  "lookup {\"query\": \"austin weather\"}",
                  "search {query: austin}",
                  "calendar {\"date\": \"today\"}">>, calls |-> <<>>],
      [text |-> <<"lookup {\"query\": \"austin weather\"}",
                  "search {query: austin}">>, calls |-> <<>>],
      [text |-> <<>>, calls |-> <<WebSearchCall>>],
      [text |-> <<"Let me check.">>, calls |-> <<CalendarCall, WebSearchCall>>] }

\* texts a plain generation can return
PlainTexts == { <<>>, <<"It is 72F in Austin.">>, <<"As an AI">>,
                <<THINK_OPEN, "hm", THINK_CLOSE, "It is 72F in Austin.">> }

DispatchOutcomes == {"ok", "raise"}

Configs ==
    [max_iterations : 1..MaxIterBound,
     max_history : 1..MaxHistBound,
     tools : BOOLEAN,
     dispatch : BOOLEAN,
     enable_hedging_safety_net : BOOLEAN]

IdleGw ==
    [session |-> FALSE, agent_mode |-> TRUE, recording |-> FALSE,
     timers |-> 0, timer_ref |-> FALSE, tasks |-> <<>>, sent |-> <<>>,
     nMsgs |-> 0]

----------------------------------------------------------------------------
(* The chat turn: _do_agent_reply calls runner.chat, which hands an input   *)
(* that no workflow matches to Orchestrator.chat.                           *)

Step(r) == /\ call' = r.c
           /\ messages' = r.m
           /\ UNCHANGED <<cfg, wf, events, gw, lib>>

ChatBegin ==
    /\ call.pc = "idle"
    /\ nChats < MaxChats
    /\ \E x \in UserInputs :
          /\ _route_by_keywords(x) = NoWorkflow
          /\ Step(ChatEnter(messages, cfg, x))
    /\ nChats' = nChats + 1

\* chat, line 198: status(thinking), then the first iteration
StatusThinking ==
    /\ call.pc = "begun"
    /\ Step([c |-> [call EXCEPT !.pc = "gen", !.pre = <<>>,
                                !.trace = Append(@, Tr("status", "thinking", 0))],
             m |-> messages])
    /\ UNCHANGED nChats

\* chat, lines 207-208: the schemas offered in this iteration
ToolsForCall(c, cf) ==
    IF c.iteration = cf.max_iterations - 1 THEN FALSE ELSE cf.tools

GenerateReturns ==
    /\ call.pc = "gen"
    /\ \E r \in ToolUseResponses :
          /\ r.calls # <<>> => ToolsForCall(call, cfg)
          /\ Step(GenReturn(call, messages, cfg, r.text, r.calls))
    /\ UNCHANGED nChats

GenerateRaises ==
    /\ call.pc = "gen"
    /\ Step(GenRaise(call, messages))
    /\ UNCHANGED nChats

DispatchCall ==
    /\ call.pc = "dispatch"
    /\ \E o \in DispatchOutcomes : Step(DispatchStep(call, messages, cfg, o))
    /\ UNCHANGED nChats

RetryReturns ==
    /\ call.pc = "retry"
    /\ \E t \in PlainTexts : Step(RetryReturn(call, messages, cfg, t))
    /\ UNCHANGED nChats

RetryRaises ==
    /\ call.pc = "retry"
    /\ Step(RetryRaise(call, messages))
    /\ UNCHANGED nChats

SafetyExtract ==
    /\ call.pc = "sn_extract"
    /\ Step(ExtractDone(call, messages))
    /\ UNCHANGED nChats

SafetySearch ==
    /\ call.pc = "sn_search"
    /\ \E o \in {"found", "none", "raise"} : Step(SearchDone(call, messages, o))
    /\ UNCHANGED nChats

SafetyRegen ==
    /\ call.pc = "sn_regen"
    /\ \E o \in {"ok", "raise"}, t \in PlainTexts :
          Step(RegenDone(call, messages, o, t))
    /\ UNCHANGED nChats

\* _do_agent_reply, lines 255-256: the reply goes to the socket
SendReply ==
    /\ call.pc = "returned"
    /\ Step([c |-> [call EXCEPT !.pc = "idle", !.sent = Append(@, "agent_reply")],
             m |-> messages])
    /\ UNCHANGED nChats

\* _do_agent_reply, lines 250-253: chat raised, one error event
SendError ==
    /\ call.pc = "raised"
    /\ Step([c |-> [call EXCEPT !.pc = "idle", !.sent = Append(@, "error")],
             m |-> messages])
    /\ UNCHANGED nChats

Init ==
    /\ cfg \in Configs
    /\ messages = <<>>
    /\ call = IdleCall
    /\ nChats = 0
    /\ wf = IdleWf
    /\ events = <<>>
    /\ gw = IdleGw
    /\ lib = IdleLib

Next ==
    \/ ChatBegin
    \/ StatusThinking
    \/ GenerateReturns
    \/ GenerateRaises
    \/ DispatchCall
    \/ RetryReturns
    \/ RetryRaises
    \/ SafetyExtract
    \/ SafetySearch
    \/ SafetyRegen
    \/ SendReply
    \/ SendError

Spec == Init /\ [][Next]_vars

----------------------------------------------------------------------------
(* WorkflowRunner._execute_workflow (engine/workflow.py).  The variable     *)
(* events is the trace of one execution: the events handed to the           *)
(* callbacks, and the provider calls and tool dispatches, in program order. *)

Ev(type, id, status, idx, arg) ==
    [type |-> type, id |-> id, status |-> status, idx |-> idx, arg |-> arg,
     children |-> <<>>]

\* _notify_loop_update: on_workflow_state(state_id, "loop_update",
\* children, active_index)
LoopUpdate(id, children, active_index) ==
    [Ev("workflow_state", id, "loop_update", active_index, "")
        EXCEPT !.children = children]

StepsOf(w) == WORKFLOW_TEMPLATES[w.workflow_id].steps

CurrentStep(w) == StepsOf(w)[w.step_idx + 1]

\* str.startswith of a code fence
\* ("<fence>" is a line of three backquotes, "<fence json>" the same with json)
IsFence(l) == l \in {"<fence>", "<fence json>"}

\* json.loads on the lexemes of a text: an array, an object, or no JSON
JsonLoads(t) ==
    IF Len(t) >= 2 /\ t[1] = "[" /\ t[Len(t)] = "]"
    THEN [kind |-> "list", items |-> SubSeq(t, 2, Len(t) - 1)]
    ELSE IF Len(t) >= 2 /\ t[1] = "{" /\ t[Len(t)] = "}"
    THEN [kind |-> "dict", items |-> SubSeq(t, 2, Len(t) - 1)]
    ELSE [kind |-> "text", items |-> <<>>]

\* _maybe_parse_json: strip, drop a code fence, parse
_maybe_parse_json(text) ==
    LET stripped == Strip(text)
        unfenced == IF /\ stripped # <<>>
                       /\ IsFence(stripped[1])
                       /\ Len(stripped) >= 3
                       /\ stripped[Len(stripped)] = "<fence>"
                    THEN Strip(SubSeq(stripped, 2, Len(stripped) - 1))
                    ELSE stripped
    IN  JsonLoads(unfenced)

\* the members of a JSON object: key and value of each lexeme
ObjFields ==
    [l \in {"claim: water boils at 90 C",
            "support_query: water boiling point 90 C 2026",
            "counter_query: water boiling point 100 C 2026"} |->
        CASE l = "claim: water boils at 90 C" ->
                [key |-> "claim", val |-> "water boils at 90 C"]
          [] l = "support_query: water boiling point 90 C 2026" ->
                [key |-> "support_query", val |-> "water boiling point 90 C 2026"]
          [] OTHER ->
                [key |-> "counter_query", val |-> "water boiling point 100 C 2026"]]

\* dict.get(key, default) on a parsed object
RECURSIVE DictGet(_, _, _)
DictGet(items, key, default) ==
    IF items = <<>> THEN default
    ELSE IF ObjFields[Head(items)].key = key THEN ObjFields[Head(items)].val
    ELSE DictGet(Tail(items), key, default)

\* re.sub(r"^[\d.\-*]+\s*", "", line).strip()
Unbullet(line) ==
    CASE line = "1. AAPL market cap 2026" -> "AAPL market cap 2026"
      [] line = "- NVDA market cap 2026" -> "NVDA market cap 2026"
      [] OTHER -> line

\* the line fallback of decompose and evaluate_gaps, before the cap
RECURSIVE LinesToQueries(_)
LinesToQueries(lines) ==
    IF lines = <<>> THEN <<>>
    ELSE IF Head(lines) \in {"", " "} THEN LinesToQueries(Tail(lines))
    ELSE <<Unbullet(Head(lines))>> \o LinesToQueries(Tail(lines))

\* seq[:n]
Take(seq, n) == SubSeq(seq, 1, IF Len(seq) < n THEN Len(seq) ELSE n)

\* [q for q in queries if q]
RECURSIVE NonEmpty(_)
NonEmpty(qs) ==
    IF qs = <<>> THEN <<>>
    ELSE IF Head(qs) = "" THEN NonEmpty(Tail(qs))
    ELSE <<Head(qs)>> \o NonEmpty(Tail(qs))

\* text.strip().strip('"').strip("'"), then the query it leaves
RECURSIVE StripQuotes(_)
StripQuotes(t) ==
    IF t = <<>> THEN t
    ELSE IF Head(t) \in {"\"", "'"} THEN StripQuotes(Tail(t))
    ELSE IF t[Len(t)] \in {"\"", "'"} THEN StripQuotes(SubSeq(t, 1, Len(t) - 1))
    ELSE t

QueryOf(t) == IF t = <<>> THEN "" ELSE t[1]

QueryPool ==
    <<"AAPL market cap 2026", "NVDA market cap 2026", "MSFT market cap 2026",
      "GOOG market cap 2026">>

\* texts a plain generation can return for a workflow step
WfOutputs(step_id) ==
    CASE step_id \in {"initial_lookup", "initial_search"} ->
            { <<"\"", "top companies by market cap 2026", "\"">> }
      [] step_id \in {"decompose", "evaluate_gaps"} ->
            { <<"[">> \o Take(QueryPool, k) \o <<"]">> : k \in 0..MaxQueries }
            \cup { <<"<fence json>", "[", QueryPool[1], "]", "<fence>">>,
                   <<"1. AAPL market cap 2026", "- NVDA market cap 2026">>,
                   <<"[">> \o QueryPool \o <<"]">> }
      [] step_id = "extract_claim" ->
            { <<"{", "claim: water boils at 90 C",
                "support_query: water boiling point 90 C 2026",
                "counter_query: water boiling point 100 C 2026", "}">>,
              <<"{", "claim: water boils at 90 C",
                "support_query: water boiling point 90 C 2026", "}">>,
              <<"{", "claim: water boils at 90 C",
                "counter_query: water boiling point 100 C 2026", "}">>,
              <<"The claim is that water boils at 90 C.">> }
      [] OTHER ->
            { <<"Here is the answer.">>, <<THINK_OPEN, "hm", THINK_CLOSE>> }

ABORT_PREFIX == "I ran into an issue during research: "
NO_ANSWER_REPLY == <<"I completed the research but couldn't form a response.">>

\* _execute_workflow, lines 516-522
WfEnter(m, x, wid) ==
    [w |-> [IdleWf EXCEPT !.pc = "step", !.workflow_id = wid, !.user_query = x,
                          !.hist0 = m],
     ev |-> <<Ev("workflow_start", wid, "", 0, "")>>]

\* only llm steps are announced as active
StepOpen_llmOnly(w, ev) ==
    LET step == CurrentStep(w)
    IN  [w |-> [w EXCEPT !.ran = Append(@, step.id)],
         ev |-> IF step.step_type = "llm"
                THEN ev \o << Ev("workflow_state", step.id, "active", w.step_idx + 1, ""),
                              Ev("narration", step.id, "", 0, "") >>
                ELSE Append(ev, Ev("narration", step.id, "", 0, ""))]

\* lines 526-530 and 557-559: the step becomes active, its narration is sent
StepOpen(w, ev) ==
    LET step == CurrentStep(w)
    IN  [w |-> [w EXCEPT !.ran = Append(@, step.id)],
         ev |-> ev \o << Ev("workflow_state", step.id, "active", w.step_idx + 1, ""),
                         Ev("narration", step.id, "", 0, "") >>]

\* line 534, and the for loop's next turn
StepClose(w, ev) ==
    [w |-> [w EXCEPT !.step_idx = @ + 1,
                     !.pc = IF w.step_idx + 1 < Len(StepsOf(w)) THEN "step" ELSE "exit"],
     ev |-> Append(ev, Ev("workflow_state", CurrentStep(w).id, "visited", 0, ""))]

\* the exception of a step is caught per step: the runner goes on
Abort_nextStep(w, ev, message) ==
    [w |-> [w EXCEPT !.aborted = TRUE, !.error = message,
                     !.step_idx = @ + 1,
                     !.pc = IF w.step_idx + 1 < Len(StepsOf(w)) THEN "step" ELSE "exit"],
     ev |-> ev]

\* an exception of a step leaves _execute_workflow before the exit event
Abort_skipsExit(w, ev, message) ==
    [w |-> [w EXCEPT !.pc = "done", !.aborted = TRUE, !.error = message,
                     !.reply = <<ABORT_PREFIX, message>>],
     ev |-> ev]

\* lines 539-541: an exception of a step ends the for loop
Abort(w, ev, message) ==
    [w |-> [w EXCEPT !.pc = "exit", !.aborted = TRUE, !.error = message],
     ev |-> ev]

\* every llm step stores its text as the final answer
LlmPostAction_everyStepAnswers(w, ev, cf, step, text, disp) ==
    LET parsed == _maybe_parse_json(text)
        w1 == [w EXCEPT !.step_results[step.id] = text, !.final_answer = text]
    IN  CASE step.id = "decompose" ->
                StepClose([w1 EXCEPT !.search_queries =
                              IF parsed.kind = "list" THEN parsed.items
                              ELSE Take(LinesToQueries(Strip(text)), 5)], ev)
          [] step.id = "evaluate_gaps" ->
                StepClose([w1 EXCEPT !.search_queries =
                              IF parsed.kind = "list" THEN parsed.items
                              ELSE Take(LinesToQueries(Strip(text)), 3)], ev)
          [] step.id = "extract_claim" ->
                IF parsed.kind = "dict"
                THEN StepClose([w1 EXCEPT
                        !.step_results[step.id] =
                            LET claim == DictGet(parsed.items, "claim", "")
                            IN  IF claim = "" /\ DictGet(parsed.items, "claim", "x") = "x"
                                THEN text ELSE <<claim>>,
                        !.search_queries =
                            NonEmpty(<<DictGet(parsed.items, "support_query", ""),
                                       DictGet(parsed.items, "counter_query", "")>>)],
                        ev)
                ELSE StepClose([w1 EXCEPT !.search_queries = <<QueryOf(w.user_query)>>], ev)
          [] step.id \in {"initial_search", "initial_lookup"} ->
                LET search_query == QueryOf(StripQuotes(Strip(text)))
                    ev1 == Append(ev, Ev("activity", step.id, "", 0, search_query))
                IN  IF step.tool_name # "" /\ cf.dispatch
                    THEN LET ev2 == Append(ev1, Ev("dispatch", step.id, disp, 0, search_query))
                         IN  IF disp = "raise"
                             THEN Abort(w1, ev2, "search backend down")
                             ELSE StepClose([w1 EXCEPT !.step_results[step.id] =
                                                <<"results for", search_query>>], ev2)
                    ELSE StepClose([w1 EXCEPT !.step_results[step.id] =
                                       <<"(search not available)">>], ev1)
          [] step.id \in {"synthesize", "verdict"} ->
                StepClose([w1 EXCEPT !.final_answer = text], ev)
          [] OTHER -> StepClose(w1, ev)

\* _execute_llm_step, lines 611-666: the post-action of the step, on the
\* stripped text; disp is what the dispatch function does
LlmPostAction(w, ev, cf, step, text, disp) ==
    LET parsed == _maybe_parse_json(text)
        w1 == [w EXCEPT !.step_results[step.id] = text]
    IN  CASE step.id = "decompose" ->
                StepClose([w1 EXCEPT !.search_queries =
                              IF parsed.kind = "list" THEN parsed.items
                              ELSE Take(LinesToQueries(Strip(text)), 5)], ev)
          [] step.id = "evaluate_gaps" ->
                StepClose([w1 EXCEPT !.search_queries =
                              IF parsed.kind = "list" THEN parsed.items
                              ELSE Take(LinesToQueries(Strip(text)), 3)], ev)
          [] step.id = "extract_claim" ->
                IF parsed.kind = "dict"
                THEN StepClose([w1 EXCEPT
                        !.claimObj = parsed,
                        !.step_results[step.id] =
                            LET claim == DictGet(parsed.items, "claim", "")
                            IN  IF claim = "" /\ DictGet(parsed.items, "claim", "x") = "x"
                                THEN text ELSE <<claim>>,
                        !.search_queries =
                            NonEmpty(<<DictGet(parsed.items, "support_query", ""),
                                       DictGet(parsed.items, "counter_query", "")>>)],
                        ev)
                ELSE StepClose([w1 EXCEPT !.search_queries = <<QueryOf(w.user_query)>>], ev)
          [] step.id \in {"initial_search", "initial_lookup"} ->
                LET search_query == QueryOf(StripQuotes(Strip(text)))
                    ev1 == Append(ev, Ev("activity", step.id, "", 0, search_query))
                IN  IF step.tool_name # "" /\ cf.dispatch
                    THEN LET ev2 == Append(ev1, Ev("dispatch", step.id, disp, 0, search_query))
                         IN  IF disp = "raise"
                             THEN Abort(w1, ev2, "search backend down")
                             ELSE StepClose([w1 EXCEPT !.step_results[step.id] =
                                                <<"results for", search_query>>], ev2)
                    ELSE StepClose([w1 EXCEPT !.step_results[step.id] =
                                       <<"(search not available)">>], ev1)
          [] step.id \in {"synthesize", "verdict"} ->
                StepClose([w1 EXCEPT !.final_answer = text], ev)
          [] OTHER -> StepClose(w1, ev)

\* _execute_llm_step: gen is the generation's outcome and text, dbg what
\* the on_debug callback does ("none": there are no diagnostics to send)
LlmStep(w, ev, cf, gen, text, dbg, disp) ==
    LET step == CurrentStep(w)
        o == StepOpen(w, ev)
        ev1 == o.ev \o << Ev("activity", step.id, "", 0, ""),
                          Ev("generate", step.id, "", 0, "") >>
        ev2 == Append(ev1, Ev("debug", step.id, "", 0, ""))
    IN  IF gen = "raise" THEN Abort(o.w, ev1, "provider down")
        ELSE IF dbg = "raise" THEN Abort(o.w, ev2, "debug sink closed")
        ELSE LlmPostAction(o.w, IF dbg = "none" THEN ev1 ELSE ev2, cf, step,
                           _strip_thinking(text), disp)

\* the notification before the loop names the first query as active
LoopOpen_activeFirst(w, ev) ==
    LET step == CurrentStep(w)
        o == StepOpen(w, ev)
    IN  IF w.search_queries = <<>>
        THEN StepClose([o.w EXCEPT !.loopDone = TRUE], o.ev)
        ELSE [w |-> [o.w EXCEPT !.pc = "loop", !.loop_i = 0, !.results = <<>>],
              ev |-> Append(o.ev, LoopUpdate(step.id, w.search_queries, 0))]

\* _execute_loop_step, lines 672-680
LoopOpen(w, ev) ==
    LET step == CurrentStep(w)
        o == StepOpen(w, ev)
    IN  IF w.search_queries = <<>>
        THEN StepClose([o.w EXCEPT !.loopDone = TRUE], o.ev)
        ELSE [w |-> [o.w EXCEPT !.pc = "loop", !.loop_i = 0, !.results = <<>>],
              ev |-> Append(o.ev, LoopUpdate(step.id, w.search_queries, -1))]

\* line 705 and the return to _execute_workflow
LoopClose(w, ev) ==
    IF w.loop_i < Len(w.search_queries)
    THEN [w |-> w, ev |-> ev]
    ELSE StepClose([w EXCEPT !.search_results = w.results, !.loopDone = TRUE], ev)

\* the loop without its try/except: a raising dispatch ends the workflow
LoopIter_raises(w, ev, cf, disp) ==
    LET step == CurrentStep(w)
        query == w.search_queries[w.loop_i + 1]
        ev1 == ev \o << Ev("workflow_state", step.id, "active", 0, query),
                        LoopUpdate(step.id, w.search_queries, w.loop_i),
                        Ev("activity", step.id, "", 0, query) >>
        dispatched == cf.dispatch /\ step.tool_name # ""
        entry == IF ~dispatched THEN <<"[Query: ", query, "]", "(search not available)">>
                 ELSE <<"[Query: ", query, "]", "results for", query>>
    IN  IF dispatched /\ disp = "raise"
        THEN Abort(w, Append(ev1, Ev("dispatch", step.id, disp, w.loop_i, query)),
                   "search backend down")
        ELSE LoopClose([w EXCEPT !.loop_i = @ + 1, !.results = Append(@, entry)],
                       IF dispatched
                       THEN Append(ev1, Ev("dispatch", step.id, disp, w.loop_i, query))
                       ELSE ev1)

\* _execute_loop_step, lines 681-703: one turn of the loop over the queries
LoopIter(w, ev, cf, disp) ==
    LET step == CurrentStep(w)
        query == w.search_queries[w.loop_i + 1]
        ev1 == ev \o << Ev("workflow_state", step.id, "active", 0, query),
                        LoopUpdate(step.id, w.search_queries, w.loop_i),
                        Ev("activity", step.id, "", 0, query) >>
        dispatched == cf.dispatch /\ step.tool_name # ""
        entry == IF ~dispatched THEN <<"[Query: ", query, "]", "(search not available)">>
                 ELSE IF disp = "raise"
                 THEN <<"[Query: ", query, "]", "Search failed: ", "search backend down">>
                 ELSE <<"[Query: ", query, "]", "results for", query>>
    IN  LoopClose([w EXCEPT !.loop_i = @ + 1, !.results = Append(@, entry)],
                  IF dispatched
                  THEN Append(ev1, Ev("dispatch", step.id, disp, w.loop_i, query))
                  ELSE ev1)

\* the counter-evidence step answers from the evidence already fetched
DirectStep_reusesEvidence(w, ev, cf, disp) ==
    LET step == CurrentStep(w)
        o == StepOpen(w, ev)
        query == IF w.search_queries # <<>> THEN w.search_queries[1]
                 ELSE QueryOf(w.user_query)
        ev1 == o.ev \o << Ev("activity", step.id, "", 0, ""),
                          Ev("dispatch", step.id, disp, 0, query) >>
    IN  IF ~cf.dispatch \/ step.tool_name = ""
        THEN StepClose([o.w EXCEPT !.step_results[step.id] = <<"(tool not available)">>],
                       o.ev)
        ELSE IF step.id = "search_counter"
        THEN StepClose([o.w EXCEPT !.step_results[step.id] =
                           w.step_results["search_evidence"]],
                       Append(o.ev, Ev("activity", step.id, "", 0, "")))
        ELSE StepClose([o.w EXCEPT !.step_results[step.id] =
                           IF disp = "raise"
                           THEN <<"Search failed: ", "search backend down">>
                           ELSE <<"results for", query>>],
                       ev1)

\* _execute_direct_step
DirectStep(w, ev, cf, disp) ==
    LET step == CurrentStep(w)
        o == StepOpen(w, ev)
        query == IF step.id = "search_evidence" /\ w.search_queries # <<>>
                 THEN w.search_queries[1]
                 ELSE IF step.id = "search_counter" /\ Len(w.search_queries) > 1
                 THEN w.search_queries[2]
                 ELSE QueryOf(w.user_query)
        ev1 == o.ev \o << Ev("activity", step.id, "", 0, ""),
                          Ev("dispatch", step.id, disp, 0, query) >>
    IN  IF ~cf.dispatch \/ step.tool_name = ""
        THEN StepClose([o.w EXCEPT !.step_results[step.id] = <<"(tool not available)">>],
                       o.ev)
        ELSE StepClose([o.w EXCEPT !.step_results[step.id] =
                           IF disp = "raise"
                           THEN <<"Search failed: ", "search backend down">>
                           ELSE <<"results for", query>>],
                       ev1)

\* the search results of the run are kept in the history as a tool message
WfExitStep_persistsResults(w, ev, m) ==
    LET reply == IF w.aborted THEN <<ABORT_PREFIX, w.error>>
                 ELSE IF w.final_answer # <<>> THEN w.final_answer
                 ELSE NO_ANSWER_REPLY
    IN  [w |-> [w EXCEPT !.pc = "done", !.reply = reply],
         ev |-> Append(ev, Ev("workflow_exit", w.workflow_id, "", 0, "")),
         m |-> m \o << Msg("user", w.user_query),
                       Msg("tool", <<"search results">>),
                       Msg("assistant", reply) >>]

\* _execute_workflow, lines 536-549: the reply, the exit event, the history
WfExitStep(w, ev, m) ==
    LET reply == IF w.aborted THEN <<ABORT_PREFIX, w.error>>
                 ELSE IF w.final_answer # <<>> THEN w.final_answer
                 ELSE NO_ANSWER_REPLY
    IN  [w |-> [w EXCEPT !.pc = "done", !.reply = reply],
         ev |-> Append(ev, Ev("workflow_exit", w.workflow_id, "", 0, "")),
         m |-> m \o << Msg("user", w.user_query), Msg("assistant", reply) >>]

----------------------------------------------------------------------------
(* Workflow turns: runner.chat with an input that a template matches *)

WfStepTo(r) ==
    /\ wf' = r.w
    /\ events' = r.ev
    /\ UNCHANGED <<cfg, messages, call, nChats, gw, lib>>

WfBegin ==
    /\ wf.pc \in {"idle", "done"}
    /\ nChats < MaxRuns
    /\ \E x \in WorkflowInputs :
          /\ _route_by_keywords(x) # NoWorkflow
          /\ LET r == WfEnter(messages, x, _route_by_keywords(x))
             IN  wf' = r.w /\ events' = r.ev
    /\ nChats' = nChats + 1
    /\ UNCHANGED <<cfg, messages, call, gw, lib>>

RunLlmStep ==
    /\ wf.pc = "step"
    /\ CurrentStep(wf).step_type = "llm"
    /\ \E gen \in {"ok", "raise"}, text \in WfOutputs(CurrentStep(wf).id),
          dbg \in {"none", "ok", "raise"}, disp \in DispatchOutcomes :
          WfStepTo(LlmStep(wf, events, cfg, gen, text, dbg, disp))

OpenLoopStep ==
    /\ wf.pc = "step"
    /\ CurrentStep(wf).step_type = "loop"
    /\ WfStepTo(LoopOpen(wf, events))

RunLoopIter ==
    /\ wf.pc = "loop"
    /\ \E disp \in DispatchOutcomes : WfStepTo(LoopIter(wf, events, cfg, disp))

RunDirectStep ==
    /\ wf.pc = "step"
    /\ CurrentStep(wf).step_type = "direct"
    /\ \E disp \in DispatchOutcomes : WfStepTo(DirectStep(wf, events, cfg, disp))

WfExit ==
    /\ wf.pc = "exit"
    /\ LET r == WfExitStep(wf, events, messages)
       IN  wf' = r.w /\ events' = r.ev /\ messages' = r.m
    /\ UNCHANGED <<cfg, call, nChats, gw, lib>>

\* a history that an earlier Orchestrator.chat call with max_iterations = 1
\* leaves behind
HistoryWithGroup(cf) ==
    << Msg("user", <<"what is the weather in Austin">>),
       AssistantCalls(<<>>, <<WebSearchCall>>),
       Msg("tool", _dispatch(cf, "web_search", "ok")),
       Msg("assistant", FALLBACK_REPLY) >>

InitWorkflow ==
    /\ cfg \in {c \in Configs : /\ c.max_iterations = 1
                                /\ c.max_history = 1
                                /\ c.tools
                                /\ c.enable_hedging_safety_net}
    /\ messages \in {<<>>, HistoryWithGroup(cfg)}
    /\ call = IdleCall
    /\ nChats = 0
    /\ wf = IdleWf
    /\ events = <<>>
    /\ gw = IdleGw
    /\ lib = IdleLib

NextWorkflow ==
    \/ WfBegin
    \/ RunLlmStep
    \/ OpenLoopStep
    \/ RunLoopIter
    \/ RunDirectStep
    \/ WfExit

SpecWorkflow == InitWorkflow /\ [][NextWorkflow]_vars

----------------------------------------------------------------------------
(* WorkflowRunner.chat: the router decides between a workflow execution and *)
(* Orchestrator.chat.                                                       *)

\* every input the router is exercised with
RunnerInputs == { <<x>> : x \in DOMAIN InputFacts }

\* WorkflowRunner.chat, lines 488-495
RunnerChat ==
    /\ call.pc = "idle"
    /\ wf.pc \in {"idle", "done"}
    /\ nChats < MaxRuns
    /\ \E x \in RunnerInputs :
          LET workflow_id == _route_by_keywords(x)
          IN  IF workflow_id # NoWorkflow
              THEN /\ LET r == WfEnter(messages, x, workflow_id)
                      IN  wf' = r.w /\ events' = r.ev
                   /\ UNCHANGED <<messages, call>>
              ELSE /\ LET r == ChatEnter(messages, cfg, x)
                      IN  call' = r.c /\ messages' = r.m
                   /\ UNCHANGED <<wf, events>>
    /\ nChats' = nChats + 1
    /\ UNCHANGED <<cfg, gw, lib>>

InitRunner ==
    /\ cfg \in {c \in Configs : /\ c.max_iterations = MaxIterBound
                                /\ c.max_history = MaxHistBound
                                /\ c.tools /\ c.dispatch
                                /\ c.enable_hedging_safety_net}
    /\ messages = <<>>
    /\ call = IdleCall
    /\ nChats = 0
    /\ wf = IdleWf
    /\ events = <<>>
    /\ gw = IdleGw
    /\ lib = IdleLib

NextRunner ==
    \/ RunnerChat
    \/ StatusThinking
    \/ GenerateReturns
    \/ GenerateRaises
    \/ DispatchCall
    \/ RetryReturns
    \/ RetryRaises
    \/ SafetyExtract
    \/ SafetySearch
    \/ SafetyRegen
    \/ SendReply
    \/ SendError
    \/ RunLlmStep
    \/ OpenLoopStep
    \/ RunLoopIter
    \/ RunDirectStep
    \/ WfExit

SpecRunner == InitRunner /\ [][NextRunner]_vars

----------------------------------------------------------------------------
(* The tool-group invariant of a history *)

\* the tool-role message tm carries the result of the call tc
AnswersCall(tm, tc) == Len(tm.content) >= 2 /\ tm.content[2] = tc.name

ToolGroupInv(m) ==
    /\ \A k \in 1..Len(m) :
          HasToolCalls(m[k]) =>
             LET n == Len(m[k].tool_calls)
             IN  /\ m[k].role = "assistant"
                 /\ k + n <= Len(m)
                 /\ \A j \in 1..n : /\ IsToolMsg(m[k + j])
                                    /\ AnswersCall(m[k + j], m[k].tool_calls[j])
                 /\ k + n < Len(m) => ~IsToolMsg(m[k + n + 1])
    /\ \A k \in 1..Len(m) :
          IsToolMsg(m[k]) =>
             \E s \in 1..(k - 1) :
                /\ HasToolCalls(m[s])
                /\ k - s <= Len(m[s].tool_calls)
                /\ \A j \in (s + 1)..k : IsToolMsg(m[j])

\* no chat call is in flight on the Orchestrator
Quiescent == call.pc \in {"idle", "returned", "raised"}

\* index of the last user message of m, 0 when there is none
RECURSIVE LastUserIndex(_, _)
LastUserIndex(m, k) ==
    IF k = 0 THEN 0
    ELSE IF m[k].role = "user" THEN k
    ELSE LastUserIndex(m, k - 1)

\* the tool-role messages of m, in order
RECURSIVE ToolMsgsOf(_)
ToolMsgsOf(m) ==
    IF m = <<>> THEN <<>>
    ELSE IF IsToolMsg(Head(m)) THEN <<Head(m)>> \o ToolMsgsOf(Tail(m))
    ELSE ToolMsgsOf(Tail(m))

\* the names of the calls of the assistant messages of m, in order
RECURSIVE CallNamesOf(_)
CallNamesOf(m) ==
    IF m = <<>> THEN <<>>
    ELSE [j \in 1..Len(Head(m).tool_calls) |-> Head(m).tool_calls[j].name]
            \o CallNamesOf(Tail(m))

----------------------------------------------------------------------------
(* Claims about Orchestrator.chat, checked under Spec *)

\* C1: whenever no chat call is in flight (before the first call, after a
\* call returned, after a call ended with a provider error), the history
\* satisfies the tool-group invariant: every assistant message with tool
\* calls is followed at once by one tool-role message per call, in call
\* order, and every tool-role message belongs to such a group.
C1_ToolGroupsAtRest == Quiescent => ToolGroupInv(messages)

\* a call that produced a tool group ended with a provider error, after an
\* earlier call
C1_Witness ==
    /\ call.pc = "idle"
    /\ call.raisedBy = "main"
    /\ call.grp # <<>>
    /\ nChats >= 2
    /\ \E k \in 1..Len(messages) : HasToolCalls(messages[k])

\* C2: when chat(x) has returned a non-empty reply, the last message of the
\* history is (assistant, reply), the latest user message is (user, x), and
\* the messages between the two are exactly the complete tool groups this
\* call produced.
C2_ReplyClosesTurn ==
    (call.pc = "returned" /\ call.reply # <<>>) =>
        LET n == Len(messages)
            u == LastUserIndex(messages, n)
        IN  /\ n >= 2
            /\ messages[n] = Msg("assistant", call.reply)
            /\ u > 0
            /\ messages[u] = Msg("user", call.user_input)
            /\ SubSeq(messages, u + 1, n - 1) = call.grp
            /\ ToolGroupInv(call.grp)

\* a later call returned a reply after the post-tool hedging retry ran
C2_Witness ==
    /\ call.pc = "returned"
    /\ call.reply # <<>>
    /\ call.grp # <<>>
    /\ call.gens > Len(call.grp)
    /\ nChats >= 2

\* C3: right after _trim_history at the start of chat the history is a
\* suffix of the untrimmed one, it holds at most max_history messages, it
\* does not start with a tool-role message, and every tool group of the
\* untrimmed history lies wholly in the dropped part or wholly in the kept
\* part.
C3_TrimKeepsGroups ==
    (call.pc = "begun") =>
        LET pre == call.pre
            k == Len(pre) - Len(messages)
        IN  /\ ToolGroupInv(SubSeq(pre, 1, Len(pre) - 1))
            /\ pre[Len(pre)] = Msg("user", call.user_input)
            /\ k >= 0
            /\ messages = SubSeq(pre, k + 1, Len(pre))
            /\ Len(messages) <= cfg.max_history
            /\ messages # <<>> => ~IsToolMsg(messages[1])
            /\ \A s \in 1..Len(pre) :
                  HasToolCalls(pre[s]) =>
                      \/ s + Len(pre[s].tool_calls) <= k
                      \/ s > k

\* the history was trimmed and the first candidate cut fell on a tool-role
\* message, inside a group
C3_Witness ==
    /\ call.pc = "begun"
    /\ Len(call.pre) > cfg.max_history
    /\ IsToolMsg(call.pre[Len(call.pre) - cfg.max_history + 1])

\* C7: once a tool-use generation of the main loop has failed, chat has
\* raised, no provider call follows in that chat call, and the gateway
\* closes the turn with exactly one event, an error event.
C7_ProviderErrorPropagates ==
    (call.raisedBy = "main") =>
        /\ call.gensAfter = 0
        /\ call.pc \in {"raised", "idle"}
        /\ call.pc = "idle" => call.sent = <<"error">>

\* the turn is closed after the second generation of a call failed
C7_Witness ==
    /\ call.raisedBy = "main"
    /\ call.pc = "idle"
    /\ call.gens >= 2
    /\ call.sent = <<"error">>

\* some dispatch of the group that call c has just completed failed
FailedInGroup(c) ==
    \E k \in (Len(c.dlog) - Len(c.tool_calls) + 1)..Len(c.dlog) : ~c.dlog[k].ok

\* the step completes a tool group in which a dispatch failed
CompletesFailedGroup ==
    /\ call.pc = "dispatch"
    /\ call'.pc # "dispatch"
    /\ call'.i = Len(call'.tool_calls)
    /\ FailedInGroup(call')

\* the failure of a dispatch is the content of its tool-role message, every
\* call of every group is dispatched, and chat is raised by providers only
DispatchFailuresRecorded ==
    /\ call.pc = "raised" => call.raisedBy \in {"main", "retry"}
    /\ LET tms == ToolMsgsOf(call.grp)
       IN  /\ Len(tms) = Len(call.dlog)
           /\ \A k \in 1..Len(tms) :
                 /\ tms[k].content[2] = call.dlog[k].name
                 /\ call.dlog[k].ok <=> tms[k].content = <<"result of", call.dlog[k].name>>
                 /\ ~call.dlog[k].ok =>
                       tms[k].content[1] \in
                          {"Error executing",
                           "Error: no dispatch function configured for tool"}
    /\ call.pc # "dispatch" =>
          /\ ToolGroupInv(call.grp)
          /\ CallNamesOf(call.grp) = [k \in 1..Len(call.dlog) |-> call.dlog[k].name]

----------------------------------------------------------------------------
(* Claims about workflow executions, checked under SpecWorkflow *)

IsActiveEv(e) == e.type = "workflow_state" /\ e.status = "active"
IsExitEv(e) == e.type = "workflow_exit"
IsLoopDispatch(e) == e.type = "dispatch" /\ e.id = StepIdsOf(wf.workflow_id)[3]

EvIs(e, kind) ==
    CASE kind = "active" -> IsActiveEv(e)
      [] kind = "exit" -> IsExitEv(e)
      [] kind = "loop dispatch" -> IsLoopDispatch(e)

\* the trace entries of ev of one kind, in order
RECURSIVE SelectEv(_, _)
SelectEv(ev, kind) ==
    IF ev = <<>> THEN <<>>
    ELSE IF EvIs(Head(ev), kind) THEN <<Head(ev)>> \o SelectEv(Tail(ev), kind)
    ELSE SelectEv(Tail(ev), kind)

\* the state ids of the workflow_state(active) events, in emission order
ActiveIds(ev) ==
    LET a == SelectEv(ev, "active") IN [k \in 1..Len(a) |-> a[k].id]

\* a sequence with every run of equal neighbours reduced to one element
RECURSIVE Collapse(_)
Collapse(q) ==
    IF Len(q) <= 1 THEN q
    ELSE IF q[1] = q[2] THEN Collapse(Tail(q))
    ELSE <<q[1]>> \o Collapse(Tail(q))

\* workflow_exit is the last entry of the trace and occurs once
ExitClosesTrace ==
    /\ events # <<>>
    /\ IsExitEv(events[Len(events)])
    /\ Len(SelectEv(events, "exit")) = 1

\* C4: a workflow execution leaves the history alone while it runs, and
\* its exit appends (user, x) and (assistant, reply) and nothing else, on
\* success and on abort.
C4_WorkflowAppendsPair ==
    /\ wf.pc \in {"step", "loop", "exit"} => messages = wf.hist0
    /\ wf.pc = "done" =>
          /\ wf.reply # <<>>
          /\ messages = wf.hist0 \o << Msg("user", wf.user_query),
                                       Msg("assistant", wf.reply) >>

\* an aborted execution that made a dispatch, run on the history that a
\* chat with a tool group left
C4_Witness ==
    /\ wf.pc = "done"
    /\ wf.aborted
    /\ \E k \in 1..Len(wf.hist0) : IsToolMsg(wf.hist0[k])
    /\ \E k \in 1..Len(events) : events[k].type = "dispatch"

\* C5 as stated: the state ids of the active events are the step ids of
\* the template, each once, and workflow_exit follows them.
C5_Original ==
    wf.pc = "done" =>
        /\ ActiveIds(events) = StepIdsOf(wf.workflow_id)
        /\ ExitClosesTrace

\* C5 amended: the state ids of the active events, a run of the same id
\* counted once, are the ids of the steps started so far, in declaration
\* order: all steps of the template when no step raised, the steps up to
\* the failing one after an abort.  A loop step emits one more active
\* event per query.  workflow_exit is emitted once, after all of them.
C5_ActiveEventsFollowSteps ==
    /\ wf.pc # "idle" =>
          /\ Collapse(ActiveIds(events)) = wf.ran
          /\ wf.ran = SubSeq(StepIdsOf(wf.workflow_id), 1, Len(wf.ran))
          /\ Len(ActiveIds(events)) = Len(wf.ran) + Len(wf.results)
    /\ wf.pc = "done" =>
          /\ ExitClosesTrace
          /\ ~wf.aborted => wf.ran = StepIdsOf(wf.workflow_id)
          /\ wf.aborted => Len(wf.ran) = wf.step_idx + 1

\* research_compare ran to its end over two queries
C5_Witness ==
    /\ wf.pc = "done"
    /\ ~wf.aborted
    /\ wf.workflow_id = "research_compare"
    /\ Len(wf.search_results) = 2

\* C9: when a step raises, the execution goes straight to its exit: no
\* later step is started, no trace entry of a later step exists, the call
\* returns the apology text with the exception's message, and that text is
\* the assistant message appended to the history.
C9_StepFailureAborts ==
    /\ wf.pc \in {"idle", "step", "loop", "exit", "done"}
    /\ wf.aborted =>
          /\ wf.pc \in {"exit", "done"}
          /\ Len(wf.ran) = wf.step_idx + 1
          /\ wf.ran = SubSeq(StepIdsOf(wf.workflow_id), 1, wf.step_idx + 1)
          /\ \A k \in 1..Len(events) :
                events[k].id \in {wf.workflow_id} \cup {wf.ran[j] : j \in 1..Len(wf.ran)}
          /\ wf.error # ""
    /\ (wf.aborted /\ wf.pc = "done") =>
          /\ wf.reply = <<ABORT_PREFIX, wf.error>>
          /\ messages[Len(messages)] = Msg("assistant", wf.reply)

\* the second of four steps raised
C9_Witness ==
    /\ wf.pc = "done"
    /\ wf.aborted
    /\ wf.step_idx = 1
    /\ wf.ran = SubSeq(StepIdsOf(wf.workflow_id), 1, 2)

\* the dispatches of the loop step, in order
LoopDispatches == SelectEv(events, "loop dispatch")

\* the entry that the loop step stores for a query and a dispatch outcome
LoopEntry(query, outcome) ==
    IF outcome = "raise"
    THEN <<"[Query: ", query, "]", "Search failed: ", "search backend down">>
    ELSE <<"[Query: ", query, "]", "results for", query>>

\* C10: with a dispatch function configured, a loop step dispatches every
\* query, in query order, whatever the earlier dispatches did; a raising
\* dispatch leaves a failure entry and does not abort; after the step
\* search_results holds one entry per query, in query order.
C10_LoopFailureCaptured ==
    cfg.dispatch =>
        /\ wf.aborted => CurrentStep(wf).step_type # "loop"
        /\ wf.pc = "loop" =>
              /\ ~wf.aborted
              /\ Len(wf.results) = wf.loop_i
              /\ Len(LoopDispatches) = wf.loop_i
        /\ (wf.loopDone /\ wf.pc # "idle") =>
              /\ Len(wf.search_results) = Len(wf.search_queries)
              /\ Len(LoopDispatches) = Len(wf.search_queries)
              /\ \A k \in 1..Len(wf.search_queries) :
                    /\ LoopDispatches[k].arg = wf.search_queries[k]
                    /\ LoopDispatches[k].idx = k - 1
                    /\ wf.search_results[k] =
                          LoopEntry(wf.search_queries[k], LoopDispatches[k].status)
              /\ wf.aborted => wf.step_idx = 3

\* the first of two queries failed, the second was dispatched and answered
C10_Witness ==
    /\ cfg.dispatch
    /\ wf.loopDone
    /\ Len(wf.search_results) = 2
    /\ wf.search_results[1] = LoopEntry(wf.search_queries[1], "raise")
    /\ wf.search_results[2] = LoopEntry(wf.search_queries[2], "ok")

----------------------------------------------------------------------------
(* The WebSocket session of the gateway: handle_ws reads the client's
   messages one at a time; every agent reply and every mic safety timer is
   a task of its own, started with asyncio.create_task.  gw.tasks are the
   agent-reply tasks in creation order, gw.timers the sleeping timers,
   gw.timer_ref whether mic_timeout_task names one of them.  A task at
   "chat" is inside runner.chat, between its entry and its return. *)

GwInputs ==
    { <<>>, <<"um">>, <<"what time is it">>, <<"tell me more">> }

\* len(clean.rstrip("?.!,").split())
WordCount(text) ==
    CASE text = <<>> -> 0
      [] text = <<"um">> -> 1
      [] text = <<"what time is it">> -> 4
      [] OTHER -> 3

_GARBAGE_WORDS == { <<"um">> }

\* what Whisper reports with a transcription: no_speech_prob above 0.6,
\* avg_logprob below -1.0, or neither (the defaults of a typed chat)
SttReports == {"clear", "no_speech", "low_logprob"}

\* input_filter.classify
classify_input(text, stt) ==
    IF text = <<>> THEN "garbage"
    ELSE IF stt = "no_speech" THEN "garbage"
    ELSE IF WordCount(text) = 1 /\ text \in _GARBAGE_WORDS THEN "garbage"
    ELSE IF stt = "low_logprob" /\ WordCount(text) <= 3 THEN "low"
    ELSE "valid"

\* fast_path.try_fast_path: <<>> stands for None
try_fast_path(text) ==
    IF text = <<"what time is it">> THEN <<"It's", "noon">> ELSE <<>>

\* _safe_ws_send / ws.send_json: the event types sent on the socket
WsSend(g, types) == [g EXCEPT !.sent = @ \o types]

\* _safe_ws_send from a task: nothing is sent on a closed socket
SafeWsSend(g, types, open) == IF open THEN WsSend(g, types) ELSE g

\* asyncio.create_task(_do_agent_reply(text, no_speech_prob, ...)); tts
\* records what became of session.speak_text in the task
CreateAgentTask(g, text, stt) ==
    [g EXCEPT !.tasks = Append(@, [pc |-> "start", text |-> text,
                                   stt |-> stt, tts |-> "none"])]

\* one iteration of "async for raw in ws"
Received(g) == [g EXCEPT !.nMsgs = @ + 1]

GwStep(g) ==
    /\ gw' = g
    /\ UNCHANGED <<cfg, call, nChats, wf, events, lib>>

\* webrtc_offer, lines 416-424
RecvWebrtcOffer ==
    /\ gw.nMsgs < MaxClientMsgs
    /\ \E sdp \in BOOLEAN :
          GwStep(IF ~sdp THEN WsSend(Received(gw), <<"error">>)
                 ELSE WsSend([Received(gw) EXCEPT !.session = TRUE,
                                                  !.recording = FALSE],
                             <<"webrtc_answer">>))
    /\ UNCHANGED messages

\* mic_start, lines 529-558
RecvMicStart ==
    /\ gw.nMsgs < MaxClientMsgs
    /\ GwStep(IF gw.session
              THEN [Received(gw) EXCEPT !.recording = TRUE,
                                        !.timers = @ + 1,
                                        !.timer_ref = TRUE]
              ELSE WsSend(Received(gw), <<"error">>))
    /\ UNCHANGED messages

\* mic_stop, lines 560-581
RecvMicStop ==
    /\ gw.nMsgs < MaxClientMsgs
    /\ \E text \in GwInputs, no_speech \in SttReports :
          LET cancel == gw.timer_ref /\ gw.timers > 0
              g1 == [Received(gw) EXCEPT
                       !.timers = IF cancel THEN @ - 1 ELSE @,
                       !.timer_ref = IF cancel THEN FALSE ELSE @,
                       !.recording = FALSE]
              g2 == WsSend(g1, <<"transcription">>)
          IN  GwStep(IF ~gw.session THEN WsSend(Received(gw), <<"error">>)
                     ELSE IF gw.agent_mode /\ text # <<>>
                     THEN CreateAgentTask(g2, text, no_speech)
                     ELSE g2)
    /\ UNCHANGED messages

\* _mic_safety_timeout, lines 539-556: the oldest sleeping timer wakes
MicTimeoutFires ==
    /\ gw.timers > 0
    /\ \E text \in GwInputs, no_speech \in SttReports :
          LET g0 == [gw EXCEPT !.timers = @ - 1,
                               !.timer_ref = @ /\ gw.timers > 1]
              g1 == WsSend([g0 EXCEPT !.recording = FALSE],
                           <<"transcription", "mic_timeout">>)
          IN  GwStep(IF ~(gw.session /\ gw.recording) THEN g0
                     ELSE IF text # <<>> /\ gw.agent_mode
                     THEN CreateAgentTask(g1, text, no_speech)
                     ELSE g1)
    /\ UNCHANGED messages

\* chat, lines 583-591
RecvChat ==
    /\ gw.nMsgs < MaxClientMsgs
    /\ \E text \in GwInputs :
          GwStep(IF text # <<>>
                 THEN CreateAgentTask(WsSend(Received(gw), <<"transcription">>),
                                      text, "clear")
                 ELSE WsSend(Received(gw), <<"error">>))
    /\ UNCHANGED messages

\* set_model, lines 459-470: a known provider clears the conversation
RecvSetModel ==
    /\ gw.nMsgs < MaxClientMsgs
    /\ \E known \in BOOLEAN :
          /\ GwStep(WsSend(Received(gw),
                           IF known THEN <<"model_set">> ELSE <<"error">>))
          /\ messages' = IF known THEN <<>> ELSE messages

\* speak_text inside try/except: spoken only with a WebRTC session
Speak(g, i, tts) ==
    [g EXCEPT !.tasks[i].tts = IF g.session THEN tts ELSE "none"]

\* a fast reply that cannot be sent is not handled: the LLM gets the input
_try_fast_reply_unsent(g, i, open, tts) ==
    LET reply == try_fast_path(g.tasks[i].text)
    IN  IF reply = <<>> THEN [g |-> g, handled |-> FALSE]
        ELSE IF ~open THEN [g |-> g, handled |-> FALSE]
        ELSE [g |-> Speak(WsSend(g, <<"agent_reply">>), i, tts), handled |-> TRUE]

\* _try_fast_reply, lines 216-229
_try_fast_reply(g, i, open, tts) ==
    LET reply == try_fast_path(g.tasks[i].text)
    IN  IF reply = <<>> THEN [g |-> g, handled |-> FALSE]
        ELSE IF ~open THEN [g |-> g, handled |-> TRUE]
        ELSE [g |-> Speak(WsSend(g, <<"agent_reply">>), i, tts), handled |-> TRUE]

\* the fast path is tried before the input filter
AgentReplyStart_fastFirst(g, i, open, tts) ==
    LET t == g.tasks[i]
        f == _try_fast_reply(g, i, open, tts)
    IN  IF f.handled THEN [f.g EXCEPT !.tasks[i].pc = "done"]
        ELSE IF classify_input(t.text, t.stt) # "valid"
        THEN [g EXCEPT !.tasks[i].pc = "done"]
        ELSE [g EXCEPT !.tasks[i].pc = "chat"]

\* _do_agent_reply, lines 237-248, up to the entry of runner.chat
AgentReplyStart(g, i, open, tts) ==
    LET t == g.tasks[i]
        f == _try_fast_reply(g, i, open, tts)
    IN  IF classify_input(t.text, t.stt) # "valid"
        THEN [g EXCEPT !.tasks[i].pc = "done"]
        ELSE IF f.handled THEN [f.g EXCEPT !.tasks[i].pc = "done"]
        ELSE [g EXCEPT !.tasks[i].pc = "chat"]

\* a task runs from its start to its first suspension; runner.chat appends
\* the user message at its entry (orchestrator.py lines 190-191)
TaskStart ==
    \E i \in 1..Len(gw.tasks), open \in BOOLEAN, tts \in {"ok", "failed"} :
        /\ gw.tasks[i].pc = "start"
        /\ LET g == AgentReplyStart(gw, i, open, tts)
           IN  /\ GwStep(g)
               /\ messages' = IF g.tasks[i].pc = "chat"
                              THEN ChatEnter(messages, cfg, gw.tasks[i].text).m
                              ELSE messages

\* lines 248 and 255-266: runner.chat returns its reply
TaskChatReturns ==
    \E i \in 1..Len(gw.tasks), reply \in PlainTexts \ {<<>>},
       open \in BOOLEAN, tts \in {"ok", "failed"} :
        /\ gw.tasks[i].pc = "chat"
        /\ LET g == [gw EXCEPT !.tasks[i].pc = "done"]
           IN  GwStep(IF open THEN Speak(WsSend(g, <<"agent_reply">>), i, tts)
                      ELSE g)
        /\ messages' = Append(messages, Msg("assistant", reply))

\* lines 249-253: runner.chat raises
TaskChatRaises ==
    \E i \in 1..Len(gw.tasks), open \in BOOLEAN :
        /\ gw.tasks[i].pc = "chat"
        /\ GwStep(SafeWsSend([gw EXCEPT !.tasks[i].pc = "done"], <<"error">>, open))
        /\ UNCHANGED messages

InitGateway ==
    /\ cfg \in {c \in Configs : /\ c.max_iterations = 1
                                /\ c.max_history = MaxHistBound
                                /\ c.tools /\ c.dispatch
                                /\ c.enable_hedging_safety_net}
    /\ messages = <<>>
    /\ call = IdleCall
    /\ nChats = 0
    /\ wf = IdleWf
    /\ events = <<>>
    /\ gw \in {[IdleGw EXCEPT !.agent_mode = a] : a \in BOOLEAN}
    /\ lib = IdleLib

NextGateway ==
    \/ RecvWebrtcOffer
    \/ RecvMicStart
    \/ RecvMicStop
    \/ MicTimeoutFires
    \/ RecvChat
    \/ RecvSetModel
    \/ TaskStart
    \/ TaskChatReturns
    \/ TaskChatRaises

SpecGateway == InitGateway /\ [][NextGateway]_vars

\* the agent-reply tasks that are inside runner.chat
InChat == {i \in 1..Len(gw.tasks) : gw.tasks[i].pc = "chat"}

\* C6: within one WebSocket session at most one runner.chat call is in
\* flight at any time.
C6_OneChatInFlight == Cardinality(InChat) <= 1

----------------------------------------------------------------------------
(* Claims about the router, checked under SpecRunner *)

\* the template w matches the input x and x has the words w asks for
Qualifies(x, w) ==
    /\ w \in InputFacts[x[1]].matches
    /\ InputFacts[x[1]].words >= WORKFLOW_TEMPLATES[w].min_query_words

\* w is the first template, in declaration order, that qualifies for x
FirstQualifying(x, w) ==
    \E k \in 1..Len(TemplateOrder) :
        /\ TemplateOrder[k] = w
        /\ Qualifies(x, w)
        /\ \A j \in 1..(k - 1) : ~Qualifies(x, TemplateOrder[j])

\* a step in which WorkflowRunner.chat is entered
EntersChat == nChats' = nChats + 1

\* C11: WorkflowRunner.chat executes the first template, in declaration
\* order, whose pattern matches the input and whose minimum word count the
\* input meets; when no template qualifies, Orchestrator.chat gets the
\* input, and no workflow event is emitted during that call.
C11_RoutesFirstQualifying ==
    /\ [][EntersChat =>
            IF wf'.pc = "step"
            THEN /\ FirstQualifying(wf'.user_query, wf'.workflow_id)
                 /\ events' = <<Ev("workflow_start", wf'.workflow_id, "", 0, "")>>
                 /\ call' = call
            ELSE /\ call'.pc = "begun"
                 /\ \A w \in DOMAIN WORKFLOW_TEMPLATES : ~Qualifies(call'.user_input, w)
                 /\ events' = events /\ wf' = wf]_vars
    /\ [][call.pc # "idle" => (events' = events /\ wf' = wf)]_vars

\* an input that matches research_compare but is too short for it runs
\* deep_research
C11_Witness ==
    /\ wf.pc = "done"
    /\ wf.workflow_id = "deep_research"
    /\ "research_compare" \in InputFacts[wf.user_query[1]].matches

----------------------------------------------------------------------------
(* Claims about the agent-reply tasks, checked under SpecGateway *)

\* the task i leaves its start in this step
Starts(i) ==
    /\ i \in 1..Len(gw.tasks)
    /\ gw.tasks[i].pc = "start"
    /\ gw'.tasks[i].pc # "start"

\* C12: when the fast-path matcher has an answer for the input of a task,
\* the task never enters runner.chat: not when the reply is sent, not when
\* the socket is closed, not when text-to-speech fails.
C12_FastPathSkipsChat ==
    /\ [](\A i \in 1..Len(gw.tasks) :
              try_fast_path(gw.tasks[i].text) # <<>> => gw.tasks[i].pc # "chat")
    /\ [][\A i \in 1..Len(gw.tasks) :
              (Starts(i) /\ try_fast_path(gw.tasks[i].text) # <<>>) =>
                  /\ gw'.tasks[i].pc = "done"
                  /\ messages' = messages]_vars

\* a fast reply whose text-to-speech failed, and one that ended with
\* nothing on the socket besides the transcriptions
C12_Witness ==
    /\ \E i \in 1..Len(gw.tasks) :
          /\ gw.tasks[i].text = <<"what time is it">>
          /\ gw.tasks[i].pc = "done"
          /\ gw.tasks[i].tts = "failed"
    /\ \E j \in 1..Len(gw.tasks) :
          /\ gw.tasks[j].text = <<"what time is it">>
          /\ gw.tasks[j].stt = "clear"
          /\ gw.tasks[j].pc = "done"
          /\ gw.tasks[j].tts = "none"
          /\ gw.session

\* C13: a task whose input is rated garbage or low ends at once: it never
\* enters runner.chat, sends nothing on the socket, speaks nothing and
\* leaves the history as it is, whatever the text.
C13_FilteredInputDropped ==
    /\ [](\A i \in 1..Len(gw.tasks) :
              classify_input(gw.tasks[i].text, gw.tasks[i].stt) # "valid" =>
                  /\ gw.tasks[i].pc # "chat"
                  /\ gw.tasks[i].tts = "none")
    /\ [][\A i \in 1..Len(gw.tasks) :
              (Starts(i) /\ classify_input(gw.tasks[i].text, gw.tasks[i].stt) # "valid") =>
                  /\ gw'.tasks[i].pc = "done"
                  /\ gw'.sent = gw.sent
                  /\ messages' = messages]_vars

\* a time question heard as non-speech and a short low-confidence input
\* were both dropped
C13_Witness ==
    /\ \E i \in 1..Len(gw.tasks) :
          /\ gw.tasks[i].text = <<"what time is it">>
          /\ gw.tasks[i].stt = "no_speech"
          /\ gw.tasks[i].pc = "done"
    /\ \E j \in 1..Len(gw.tasks) :
          /\ classify_input(gw.tasks[j].text, gw.tasks[j].stt) = "low"
          /\ gw.tasks[j].pc = "done"

----------------------------------------------------------------------------
(* Claims about the reply of Orchestrator.chat, checked under Spec *)

C15_SafetyNetReply ==
    /\ []((call.sn = "found" /\ call.grp = <<>>) =>
            /\ call.pc = "sn_regen" =>
                  /\ call.gens = call.gensSn
                  /\ messages[Len(messages)] = Msg("user", call.user_input)
            /\ call.pc \in {"returned", "idle"} =>
                  /\ call.gens = call.gensSn + 1
                  /\ call.reply = IF call.regenText # <<>> THEN call.regenText
                                  ELSE call.text
                  /\ call.reply # <<>>
            /\ call.pc = "returned" =>
                  /\ Len(messages) >= 2
                  /\ messages[Len(messages)] = Msg("assistant", call.reply)
                  /\ messages[Len(messages) - 1] = Msg("user", call.user_input)
            /\ \A k \in 1..Len(messages) : messages[k].content # SYNTHETIC)
    /\ [][call.pc \in {"sn_extract", "sn_search", "sn_regen"} =>
            messages' = IF call'.pc = "returned"
                        THEN Append(messages, Msg("assistant", call'.reply))
                        ELSE messages]_vars

\* the follow-up generation replaced a hedged reply
C15_Witness ==
    /\ call.sn = "found"
    /\ call.grp = <<>>
    /\ call.pc = "returned"
    /\ _reply_is_hedging(call.text)
    /\ call.regenText # <<>>
    /\ call.reply = call.regenText
    /\ call.reply # call.text


\* C16: when the post-tool hedging retry ran and its regeneration
\* returned, the history at the return of chat is the history from before
\* the directive was injected, followed by the assistant reply when that
\* is non-empty: the injected directive is gone, nothing else changed.
C16_DirectiveRemoved ==
    call.retried =>
        /\ call.pc = "retry" =>
              messages = Append(call.hBefore, Msg("user", DIRECTIVE))
        /\ call.pc = "returned" =>
              messages = IF call.reply # <<>>
                         THEN Append(call.hBefore, Msg("assistant", call.reply))
                         ELSE call.hBefore
        /\ call.pc \in {"retry", "returned", "raised", "idle"}

\* the regeneration returned a text and chat returned it
C16_Witness ==
    /\ call.retried
    /\ call.pc = "returned"
    /\ call.reply # <<>>
    /\ call.gens >= 2
    /\ Len(call.hBefore) >= 3


\* an embedded call that counts: a name of the alias table, whatever its
\* case, followed by braces that are JSON
IsEmbeddedCall(tok) ==
    /\ tok \in DOMAIN TextToolLexemes
    /\ TextToolLexemes[tok].lower \in
          {"gc_search", "search", "web_search", "check_calendar", "calendar",
           "get_calendar", "search_notes", "notes", "get_notes"}
    /\ TextToolLexemes[tok].json

\* the canonical tool an alias stands for
CanonicalName(alias) ==
    CASE alias \in {"gc_search", "search", "web_search"} -> "web_search"
      [] alias \in {"check_calendar", "calendar", "get_calendar"} -> "check_calendar"
      [] alias \in {"search_notes", "notes", "get_notes"} -> "search_notes"

\* the generation whose outcome the call record holds returned text only
TextOnly == call.gens > 0 /\ ~call.structured /\ call.genText # <<>>

\* the embedded calls of the text of the last generation that count
Embedded(c) == SelectSeq(c.genText, IsEmbeddedCall)

LoopUpdatePos ==
    {k \in 1..Len(events) : events[k].status = "loop_update"}

LoopDispatchPos ==
    {k \in 1..Len(events) : IsLoopDispatch(events[k])}

\* the loop_update events carry the indices lo..hi, once each and in
\* increasing order, all with the query list as children
LoopUpdatesRun(lo, hi) ==
    /\ {events[k].idx : k \in LoopUpdatePos} = lo..hi
    /\ Cardinality(LoopUpdatePos) = hi - lo + 1
    /\ \A j, k \in LoopUpdatePos : j < k => events[j].idx < events[k].idx
    /\ \A k \in LoopUpdatePos :
          /\ events[k].children = wf.search_queries
          /\ events[k].type = "workflow_state"
          /\ events[k].id = StepIdsOf(wf.workflow_id)[3]

\* every dispatch of the loop step follows the loop_update of its index,
\* with no other loop_update in between, and carries the query of that index
DispatchFollowsUpdate ==
    \A d \in LoopDispatchPos :
        \E u \in LoopUpdatePos :
            /\ u < d
            /\ events[u].idx = events[d].idx
            /\ \A v \in LoopUpdatePos : ~(u < v /\ v < d)
            /\ events[d].arg = wf.search_queries[events[d].idx + 1]

\* a loop step over at least one query has run to its end
LoopStepRan == wf.pc # "idle" /\ wf.loopDone /\ wf.search_queries # <<>>

\* C18 as stated: one loop_update per query, indices 0..n-1, and n
\* dispatches.
C18_Original ==
    LoopStepRan =>
        /\ LoopUpdatesRun(0, Len(wf.search_queries) - 1)
        /\ Cardinality(LoopDispatchPos) = Len(wf.search_queries)
        /\ DispatchFollowsUpdate

\* C18 amended: a loop step over n >= 1 queries emits n + 1 loop_update
\* events, all with the full query list as children: one with active_index
\* -1 before the first query, then one per query with active_index 0..n-1
\* in this order.  With a dispatch function configured it makes n
\* dispatches, one per query in query order, the i-th after the
\* loop_update with active_index i and before the next loop_update;
\* without one it makes none.
C18_LoopUpdates ==
    /\ wf.pc = "loop" =>
          /\ LoopUpdatesRun(-1, wf.loop_i - 1)
          /\ DispatchFollowsUpdate
          /\ Cardinality(LoopDispatchPos) = IF cfg.dispatch THEN wf.loop_i ELSE 0
    /\ LoopStepRan =>
          /\ LoopUpdatesRun(-1, Len(wf.search_queries) - 1)
          /\ DispatchFollowsUpdate
          /\ Cardinality(LoopDispatchPos) =
                IF cfg.dispatch THEN Len(wf.search_queries) ELSE 0
          /\ \A k \in 1..Len(wf.search_queries) :
                cfg.dispatch => LoopDispatches[k].arg = wf.search_queries[k]

\* a loop step over two queries finished with both dispatched
C18_Witness ==
    /\ LoopStepRan
    /\ cfg.dispatch
    /\ Len(wf.search_queries) = 2
    /\ Cardinality(LoopDispatchPos) = 2
    /\ Cardinality(LoopUpdatePos) = 3


\* the positions in the trace of the dispatches made in the step id
DispatchPosOf(id) ==
    {k \in 1..Len(events) : events[k].type = "dispatch" /\ events[k].id = id}

\* the number of dispatches in the trace
NumDispatches ==
    Cardinality({k \in 1..Len(events) : events[k].type = "dispatch"})

\* a fact_check execution with a dispatch function, no step of which raised
FactCheckRun ==
    /\ wf.pc # "idle"
    /\ wf.workflow_id = "fact_check"
    /\ cfg.dispatch
    /\ ~wf.aborted

\* C19 as stated: two dispatches, and the reply is the text of the verdict
\* step.
C19_Original ==
    (FactCheckRun /\ wf.pc = "done") =>
        /\ NumDispatches = 2
        /\ Cardinality(DispatchPosOf("search_evidence")) = 1
        /\ Cardinality(DispatchPosOf("search_counter")) = 1
        /\ wf.reply = wf.step_results["verdict"]

\* C19 amended: a fact_check execution with a dispatch function and no
\* raising step makes exactly two dispatches, one in search_evidence and
\* one in search_counter (a dispatch that raises is one of them and fails
\* no step), none in the llm steps; its reply is the text of the verdict
\* step without its thinking blocks when that is non-empty, and the fixed
\* no-answer text otherwise.
C19_FactCheckDispatches ==
    FactCheckRun =>
        /\ Cardinality(DispatchPosOf("search_evidence")) =
              IF wf.step_idx >= 2 THEN 1 ELSE 0
        /\ Cardinality(DispatchPosOf("search_counter")) =
              IF wf.step_idx >= 3 THEN 1 ELSE 0
        /\ DispatchPosOf("extract_claim") = {}
        /\ DispatchPosOf("verdict") = {}
        /\ wf.pc = "done" =>
              /\ NumDispatches = 2
              /\ wf.final_answer = wf.step_results["verdict"]
              /\ wf.reply = IF wf.step_results["verdict"] # <<>>
                            THEN wf.step_results["verdict"]
                            ELSE NO_ANSWER_REPLY

\* fact_check ran to its end: the evidence search raised, the counter
\* search answered, the verdict text is the reply
C19_Witness ==
    /\ FactCheckRun
    /\ wf.pc = "done"
    /\ NumDispatches = 2
    /\ \E k \in DispatchPosOf("search_evidence") : events[k].status = "raise"
    /\ \E k \in DispatchPosOf("search_counter") : events[k].status = "ok"
    /\ wf.reply = <<"Here is the answer.">>


\* the steps whose text is the answer of a workflow
AnswerSteps == {"synthesize", "verdict"}

\* C20: final_answer is empty until a synthesize or verdict step has
\* completed its generation, and it is then the text of that step; no other
\* step writes it; the reply of an execution that did not abort is
\* final_answer when it is non-empty and the fixed no-answer text
\* otherwise.
C20_FinalAnswerWriters ==
    /\ []((wf.pc # "idle" /\ wf.final_answer # <<>>) =>
            \E id \in AnswerSteps :
                /\ \E k \in 1..wf.step_idx : StepsOf(wf)[k].id = id
                /\ wf.step_results[id] = wf.final_answer
                /\ \E k \in 1..Len(events) :
                      events[k].type = "generate" /\ events[k].id = id)
    /\ []((wf.pc = "done" /\ ~wf.aborted) =>
            wf.reply = IF wf.final_answer # <<>> THEN wf.final_answer
                       ELSE NO_ANSWER_REPLY)
    /\ [][wf'.final_answer # wf.final_answer =>
            \/ wf'.final_answer = <<>> /\ wf'.step_idx = 0 /\ wf.pc \in {"idle", "done"}
            \/ /\ wf.pc = "step"
               /\ CurrentStep(wf).id \in AnswerSteps
               /\ CurrentStep(wf).step_type = "llm"
               /\ wf'.final_answer = wf'.step_results[CurrentStep(wf).id]]_vars

\* every step ran, the terminal step produced no text, and the reply is
\* the fixed no-answer text
C20_Witness ==
    /\ wf.pc = "done"
    /\ ~wf.aborted
    /\ Len(wf.ran) = 4
    /\ wf.final_answer = <<>>
    /\ wf.reply = NO_ANSWER_REPLY


----------------------------------------------------------------------------
(* engine/llm.py: build_tool_result_messages and the routing of a tool-use
   generation.  A native arguments object is a sequence of <<key, value>>
   pairs; its JSON text is a sequence of tokens.  NoId stands for a tool
   call dict without the key "id", None for Python's None. *)

MaxCalls == 2        \* tool calls per call list

NoId == "<no id>"
None == "<None>"

\* a tool call as generate_with_tools returns it
LlmCall(id, name, arguments) == [id |-> id, name |-> name, arguments |-> arguments]

ArgObjects ==
    { <<>>,
      << <<"query", "austin weather">> >>,
      << <<"date", "today">>, <<"tz", "UTC">> >> }

CallPool ==
    { LlmCall(id, "web_search", << <<"query", "austin weather">> >>) :
          id \in {NoId, "toolu_1", "toolu_2"} }
    \cup { LlmCall(id, "check_calendar", << <<"date", "today">>, <<"tz", "UTC">> >>) :
          id \in {NoId, "toolu_1", "toolu_2"} }
    \cup { LlmCall(id, "search_notes", <<>>) : id \in {NoId, "toolu_1", "toolu_2"} }

\* the call lists a provider or the text parser hands back: the ids that
\* are present are distinct
CallLists ==
    { cs \in UNION { [1..n -> CallPool] : n \in 0..MaxCalls } :
        \A j, k \in 1..Len(cs) : (j # k /\ cs[j].id # NoId) => cs[j].id # cs[k].id }

\* the tool_results dicts over n calls, as <<index, result>> pairs in
\* insertion order: one result per call, or the result of one call alone
\* (orchestrator.py line 251)
ResultOf(i) == IF i = 0 THEN "result 0" ELSE "result 1"

ResultDicts(n) ==
    { [k \in 1..n |-> <<k - 1, ResultOf(k - 1)>>] }
    \cup { << <<i, ResultOf(i)>> >> : i \in 0..(n - 1) }

JTok(t, s) == [t |-> t, s |-> s]

\* the members of an object in its JSON text
RECURSIVE JsonMembers(_)
JsonMembers(obj) ==
    IF obj = <<>> THEN <<>>
    ELSE << JTok("str", obj[1][1]), JTok(":", ""), JTok("str", obj[1][2]) >>
         \o (IF Len(obj) > 1 THEN <<JTok(",", "")>> ELSE <<>>)
         \o JsonMembers(Tail(obj))

\* the encoder writes the first member of an object only
json_dumps_firstMember(obj) ==
    <<JTok("{", "")>> \o JsonMembers(IF obj = <<>> THEN obj ELSE <<obj[1]>>)
        \o <<JTok("}", "")>>

\* json.dumps of an arguments object
json_dumps(obj) == <<JTok("{", "")>> \o JsonMembers(obj) \o <<JTok("}", "")>>

\* json.loads of the text of an object
RECURSIVE JsonParseMembers(_)
JsonParseMembers(toks) ==
    IF Len(toks) < 3 THEN <<>>
    ELSE << <<toks[1].s, toks[3].s>> >>
         \o JsonParseMembers(SubSeq(toks, IF Len(toks) > 3 THEN 5 ELSE 4, Len(toks)))

json_loads(toks) == JsonParseMembers(SubSeq(toks, 2, Len(toks) - 1))

\* tc.get("id", default)
GetId(tc, default) == IF tc.id = NoId THEN default ELSE tc.id

\* f"call_{i}"
CallId(i) == IF i = 0 THEN "call_0" ELSE IF i = 1 THEN "call_1" ELSE "call_2"

\* build_tool_result_messages, claude branch (lines 408-429)
BuildClaude(tool_calls, tool_results, original_text) ==
    LET text_block == IF original_text # ""
                      THEN <<[type |-> "text", text |-> original_text]>> ELSE <<>>
        tool_use == [k \in 1..Len(tool_calls) |->
                        [type |-> "tool_use",
                         id |-> GetId(tool_calls[k], ""),
                         name |-> tool_calls[k].name,
                         input |-> tool_calls[k].arguments]]
        user_content == [k \in 1..Len(tool_results) |->
                            [type |-> "tool_result",
                             tool_use_id |-> GetId(tool_calls[tool_results[k][1] + 1], ""),
                             content |-> tool_results[k][2]]]
    IN  << [role |-> "assistant", content |-> text_block \o tool_use],
           [role |-> "user", content |-> user_content] >>

\* build_tool_result_messages, openai branch (lines 431-455)
BuildOpenai(tool_calls, tool_results, original_text) ==
    LET openai_tool_calls ==
            [k \in 1..Len(tool_calls) |->
                [id |-> GetId(tool_calls[k], CallId(k - 1)),
                 type |-> "function",
                 function |-> [name |-> tool_calls[k].name,
                               arguments |-> json_dumps(tool_calls[k].arguments)]]]
    IN  << [role |-> "assistant",
            content |-> IF original_text # "" THEN original_text ELSE None,
            tool_calls |-> openai_tool_calls] >>
        \o [k \in 1..Len(tool_results) |->
               [role |-> "tool",
                tool_call_id |-> GetId(tool_calls[tool_results[k][1] + 1],
                                       CallId(tool_results[k][1])),
                content |-> tool_results[k][2]]]

\* build_tool_result_messages, ollama branch (lines 457-470)
BuildOllama(tool_calls, tool_results, original_text) ==
    LET ollama_tool_calls ==
            [k \in 1..Len(tool_calls) |->
                [function |-> [name |-> tool_calls[k].name,
                               arguments |-> tool_calls[k].arguments]]]
    IN  << [role |-> "assistant", content |-> original_text,
            tool_calls |-> ollama_tool_calls] >>
        \o [k \in 1..Len(tool_results) |->
               [role |-> "tool", content |-> tool_results[k][2]]]

\* the message list is a module-level list that is never reset: a later
\* call returns the messages of the earlier calls too
build_tool_result_messages_sharedList(provider, tool_calls, tool_results, original_text) ==
    (IF lib.pc = "decoded" THEN lib.out ELSE <<>>)
    \o (IF provider = "claude" THEN BuildClaude(tool_calls, tool_results, original_text)
        ELSE IF provider = "openai" THEN BuildOpenai(tool_calls, tool_results, original_text)
        ELSE BuildOllama(tool_calls, tool_results, original_text))

\* build_tool_result_messages
build_tool_result_messages(provider, tool_calls, tool_results, original_text) ==
    IF provider = "claude" THEN BuildClaude(tool_calls, tool_results, original_text)
    ELSE IF provider = "openai" THEN BuildOpenai(tool_calls, tool_results, original_text)
    ELSE BuildOllama(tool_calls, tool_results, original_text)

\* what a provider of the given vendor reads back from the assistant
\* message of a group: the names and arguments of its tool calls
\* (_generate_*_with_tools, lines 292-299, 317-326, 345-349)
DecodeCalls(vendor, msgs) ==
    LET am == msgs[1]
    IN  IF vendor = "claude"
        THEN LET uses == SelectSeq(am.content, LAMBDA b : b.type = "tool_use")
             IN  [k \in 1..Len(uses) |-> <<uses[k].name, uses[k].input>>]
        ELSE IF vendor = "openai"
        THEN [k \in 1..Len(am.tool_calls) |->
                 <<am.tool_calls[k].function.name,
                   json_loads(am.tool_calls[k].function.arguments)>>]
        ELSE [k \in 1..Len(am.tool_calls) |->
                 <<am.tool_calls[k].function.name,
                   am.tool_calls[k].function.arguments>>]

\* the vendor whose format a provider argument selects
FormatOf(provider) ==
    IF provider \in {"claude", "openai"} THEN provider ELSE "ollama"

LlmStepTo(l) ==
    /\ lib' = l
    /\ UNCHANGED <<cfg, messages, call, nChats, wf, events, gw>>

\* a caller builds the messages of a group
LlmBuild ==
    /\ lib.pc = "args"
    /\ LlmStepTo([lib EXCEPT !.pc = "built",
                     !.out = build_tool_result_messages(lib.provider, lib.tool_calls,
                                                       lib.tool_results, lib.text)])

\* the group is fed back into a provider of the same vendor
LlmDecode ==
    /\ lib.pc = "built"
    /\ LlmStepTo([lib EXCEPT !.pc = "decoded",
                     !.decoded = DecodeCalls(FormatOf(lib.provider), lib.out)])

\* a second call with the same arguments
LlmBuildAgain ==
    /\ lib.pc = "decoded"
    /\ LlmStepTo([lib EXCEPT !.pc = "rebuilt",
                     !.again = build_tool_result_messages(lib.provider, lib.tool_calls,
                                                         lib.tool_results, lib.text)])

\* the environment of the process: LLM_PROVIDER and whether the API keys
\* of Anthropic and OpenAI are set (llm.py lines 12-14)
Environments ==
    { [LLM_PROVIDER |-> "", anthropic_key |-> TRUE, openai_key |-> FALSE],
      [LLM_PROVIDER |-> "", anthropic_key |-> FALSE, openai_key |-> TRUE],
      [LLM_PROVIDER |-> "", anthropic_key |-> FALSE, openai_key |-> FALSE],
      [LLM_PROVIDER |-> "openai", anthropic_key |-> TRUE, openai_key |-> TRUE] }

\* _resolve_provider
_resolve_provider(env) ==
    IF env.LLM_PROVIDER \in {"claude", "openai", "ollama"} THEN env.LLM_PROVIDER
    ELSE IF env.anthropic_key THEN "claude"
    ELSE IF env.openai_key THEN "openai"
    ELSE "ollama"

\* _generate_with_tools_sync, lines 366-374: the vendor whose API the
\* generation calls
RoutedVendor(provider, env) ==
    LET p == IF provider # "" THEN provider ELSE _resolve_provider(env)
    IN  IF p = "claude" THEN "claude"
        ELSE IF p = "openai" THEN "openai"
        ELSE "ollama"

\* chat, lines 210-214: the messages that _build_llm_messages built with
\* config.provider go to generate_with_tools with the same argument
LlmGenerate ==
    /\ lib.pc = "rebuilt"
    /\ LlmStepTo([lib EXCEPT !.pc = "generated",
                     !.routed = RoutedVendor(lib.provider, lib.env)])

InitLlm ==
    /\ cfg \in {c \in Configs : /\ c.max_iterations = 1
                                /\ c.max_history = 1
                                /\ c.tools /\ c.dispatch
                                /\ c.enable_hedging_safety_net}
    /\ messages \in {<<>>, HistoryWithGroup(cfg)}
    /\ call = IdleCall
    /\ nChats = 0
    /\ wf = IdleWf
    /\ events = <<>>
    /\ gw = IdleGw
    /\ \E p \in {"claude", "openai", "ollama", ""}, cs \in CallLists,
          t \in {"", "Let me check."}, env \in Environments :
          \E rs \in ResultDicts(Len(cs)) :
              lib = [pc |-> "args", provider |-> p, tool_calls |-> cs,
                     tool_results |-> rs, text |-> t, env |-> env, routed |-> "",
                     args0 |-> <<p, cs, rs, t>>, hist0 |-> messages,
                     out |-> <<>>, decoded |-> <<>>, again |-> <<>>]

NextLlm ==
    \/ LlmBuild
    \/ LlmDecode
    \/ LlmBuildAgain
    \/ LlmGenerate

SpecLlm == InitLlm /\ [][NextLlm]_vars

\* C21: the assistant message that build_tool_result_messages produces
\* carries the names and the arguments of the input calls in their order
\* (arguments as JSON text for openai, as native objects otherwise), so
\* that a provider of the vendor reads back the original names and
\* arguments.
C21_CallsRoundTrip ==
    lib.pc \in {"decoded", "rebuilt", "generated"} =>
        /\ Len(lib.decoded) = Len(lib.tool_calls)
        /\ \A k \in 1..Len(lib.tool_calls) :
              /\ lib.decoded[k][1] = lib.tool_calls[k].name
              /\ lib.decoded[k][2] = lib.tool_calls[k].arguments
        /\ lib.provider = "openai" =>
              \A k \in 1..Len(lib.tool_calls) :
                  /\ lib.out[1].tool_calls[k].function.arguments # lib.tool_calls[k].arguments
                  /\ lib.out[1].tool_calls[k].function.arguments[1] = JTok("{", "")

\* two calls, one with two arguments, encoded for openai and read back
C21_Witness ==
    /\ lib.pc = "decoded"
    /\ lib.provider = "openai"
    /\ Len(lib.tool_calls) = 2
    /\ \E k \in 1..2 : Len(lib.tool_calls[k].arguments) = 2
    /\ lib.text # ""


\* the ids of the tool calls of the assistant message of a built group,
\* in order, and the <<index, id>> of its tool results, in order
OutCallIds(vendor, msgs) ==
    IF vendor = "claude"
    THEN LET uses == SelectSeq(msgs[1].content, LAMBDA b : b.type = "tool_use")
         IN  [k \in 1..Len(uses) |-> uses[k].id]
    ELSE [k \in 1..Len(msgs[1].tool_calls) |-> msgs[1].tool_calls[k].id]

OutResultIds(vendor, msgs) ==
    IF vendor = "claude"
    THEN [k \in 1..Len(msgs[2].content) |-> msgs[2].content[k].tool_use_id]
    ELSE [k \in 1..(Len(msgs) - 1) |-> msgs[k + 1].tool_call_id]

\* C22: in the claude and openai formats every tool result carries an id
\* that is the id of the call at its index in the assistant message and of
\* no other call of that message, also for calls without an id and for
\* lists of two or more calls.
C22_ResultIdIdentifiesCall ==
    (lib.pc \in {"built", "decoded", "rebuilt", "generated"} /\ lib.provider \in {"claude", "openai"}) =>
        LET ids == OutCallIds(lib.provider, lib.out)
            rids == OutResultIds(lib.provider, lib.out)
        IN  /\ Len(rids) = Len(lib.tool_results)
            /\ \A r \in 1..Len(rids) :
                  {k \in 1..Len(ids) : ids[k] = rids[r]} = {lib.tool_results[r][1] + 1}


----------------------------------------------------------------------------
(* engine/input_filter.py: classify.  Probabilities, log-probabilities and
   seconds are counted in hundredths: 60 stands for 0.6, -100 for -1.0. *)

\* _GARBAGE_WORDS, the words of it that the texts below use
FillerWords == {"um", "uh", "the", "okay"}

\* What classify sees of a text: clean = text.strip() being empty, a match
\* of one of _HALLUCINATION_PATTERNS, and the words of
\* clean.rstrip("?.!,").split(), lower-cased and stripped of punctuation
FilterTexts ==
    [t \in {"", "   ", "um", "Um.", "um uh", "Okay, the.", "um hello", "hello",
            "hello there friend", "what time is it", "(upbeat music)",
            "the the the", "mmm", ". . . ."} |->
        CASE t \in {"", "   "} -> [empty |-> TRUE, pattern |-> FALSE, words |-> <<>>]
          [] t \in {"um", "Um."} -> [empty |-> FALSE, pattern |-> FALSE, words |-> <<"um">>]
          [] t = "um uh" -> [empty |-> FALSE, pattern |-> FALSE, words |-> <<"um", "uh">>]
          [] t = "Okay, the." ->
                [empty |-> FALSE, pattern |-> FALSE, words |-> <<"okay", "the">>]
          [] t = "um hello" ->
                [empty |-> FALSE, pattern |-> FALSE, words |-> <<"um", "hello">>]
          [] t = "hello" -> [empty |-> FALSE, pattern |-> FALSE, words |-> <<"hello">>]
          [] t = "hello there friend" ->
                [empty |-> FALSE, pattern |-> FALSE,
                 words |-> <<"hello", "there", "friend">>]
          [] t = "what time is it" ->
                [empty |-> FALSE, pattern |-> FALSE,
                 words |-> <<"what", "time", "is", "it">>]
          [] t = "the the the" ->
                [empty |-> FALSE, pattern |-> FALSE, words |-> <<"the", "the", "the">>]
          [] t = "mmm" -> [empty |-> FALSE, pattern |-> TRUE, words |-> <<"mmm">>]
          [] t = "(upbeat music)" ->
                [empty |-> FALSE, pattern |-> TRUE, words |-> <<"(upbeat", "music)">>]
          [] OTHER ->
                [empty |-> FALSE, pattern |-> TRUE, words |-> <<".", ".", ".", ".">>]]

Durations == {0, 1, 59, 60, 61, 200}
NoSpeechProbs == {0, 59, 60, 61, 100}
AvgLogprobs == {-150, -101, -100, -99, 0}

\* the thresholds are inclusive
classify_inclusive(text, no_speech_prob, avg_logprob, audio_duration_s) ==
    LET f == FilterTexts[text]
        word_count == Len(f.words)
    IN  IF f.empty THEN "garbage"
        ELSE IF audio_duration_s > 0 /\ audio_duration_s <= 60 THEN "garbage"
        ELSE IF no_speech_prob >= 60 THEN "garbage"
        ELSE IF f.pattern THEN "garbage"
        ELSE IF word_count = 1 /\ f.words[1] \in FillerWords THEN "garbage"
        ELSE IF avg_logprob < -100 /\ word_count <= 3 THEN "low"
        ELSE IF word_count = 2 /\ f.words[1] \in FillerWords /\ f.words[2] \in FillerWords
        THEN "garbage"
        ELSE "valid"

\* input_filter.classify, lines 63-109
classify(text, no_speech_prob, avg_logprob, audio_duration_s) ==
    LET f == FilterTexts[text]
        word_count == Len(f.words)
    IN  IF f.empty THEN "garbage"
        ELSE IF audio_duration_s > 0 /\ audio_duration_s < 60 THEN "garbage"
        ELSE IF no_speech_prob > 60 THEN "garbage"
        ELSE IF f.pattern THEN "garbage"
        ELSE IF word_count = 1 /\ f.words[1] \in FillerWords THEN "garbage"
        ELSE IF avg_logprob < -100 /\ word_count <= 3 THEN "low"
        ELSE IF word_count = 2 /\ f.words[1] \in FillerWords /\ f.words[2] \in FillerWords
        THEN "garbage"
        ELSE "valid"

\* the gateway classifies a transcription
FilterClassify ==
    /\ lib.pc = "heard"
    /\ lib' = [lib EXCEPT !.pc = "classified",
                          !.quality = classify(lib.text, lib.no_speech_prob,
                                               lib.avg_logprob, lib.audio_duration_s)]
    /\ UNCHANGED <<cfg, messages, call, nChats, wf, events, gw>>

InitFilter ==
    /\ cfg \in {c \in Configs : /\ c.max_iterations = 1
                                /\ c.max_history = 1
                                /\ c.tools /\ c.dispatch
                                /\ c.enable_hedging_safety_net}
    /\ messages = <<>>
    /\ call = IdleCall
    /\ nChats = 0
    /\ wf = IdleWf
    /\ events = <<>>
    /\ gw = IdleGw
    /\ \E t \in DOMAIN FilterTexts, p \in NoSpeechProbs, l \in AvgLogprobs,
          d \in Durations :
          lib = [pc |-> "heard", text |-> t, no_speech_prob |-> p,
                 avg_logprob |-> l, audio_duration_s |-> d, quality |-> ""]

NextFilter == FilterClassify

SpecFilter == InitFilter /\ [][NextFilter]_vars

\* no rule before the word rules fires on the classified input
PassesSignalRules ==
    /\ ~FilterTexts[lib.text].empty
    /\ ~(lib.audio_duration_s > 0 /\ lib.audio_duration_s < 60)
    /\ lib.no_speech_prob <= 60
    /\ ~FilterTexts[lib.text].pattern

\* C24: an input of two filler words that no earlier rule catches is
\* garbage whatever avg_logprob is, also below -1.0.
C24_TwoFillersGarbage ==
    (/\ lib.pc = "classified"
     /\ PassesSignalRules
     /\ Len(FilterTexts[lib.text].words) = 2
     /\ \A k \in 1..2 : FilterTexts[lib.text].words[k] \in FillerWords)
        => lib.quality = "garbage"

\* a text on which no rule about its words or its confidence fires
NoWordRule ==
    LET w == FilterTexts[lib.text].words
    IN  /\ ~FilterTexts[lib.text].empty
        /\ ~FilterTexts[lib.text].pattern
        /\ ~(Len(w) = 1 /\ w[1] \in FillerWords)
        /\ ~(Len(w) = 2 /\ w[1] \in FillerWords /\ w[2] \in FillerWords)
        /\ ~(lib.avg_logprob < -100 /\ Len(w) <= 3)

----------------------------------------------------------------------------
(* The search fallback chains: engine/search.py search and
   voice_assistant/tools/web_search.py WebSearchTool.execute.  lib.next is
   the position in the chain of the if statement that runs next, lib.tried
   the providers called so far with what each did, lib.result the local
   variable result (None until a provider succeeds). *)

\* the providers of each chain in the order of its if statements
ChainOrder(chain) ==
    IF chain = "engine" THEN <<"tavily", "brave", "duckduckgo">>
    ELSE <<"serper", "tavily", "brave", "duckduckgo">>

\* the providers that need an API key
KeyedProviders == {"serper", "tavily", "brave"}

\* what a provider function does: it returns results, finds nothing, or
\* catches an exception of its request; the last two return None
ProviderOutcomes == {"results", "nothing", "exception"}

SearchQueries == {"austin weather", "AAPL market cap 2026"}

\* what a provider function returns
ProviderReturn(provider, query, outcome) ==
    IF outcome = "results" THEN <<provider, "results for", query>> ELSE None

\* the chain goes on to the next provider although one has succeeded
TryProvider_keepsTrying(l, outcome) ==
    LET provider == ChainOrder(l.chain)[l.next]
        configured == provider \notin KeyedProviders \/ provider \in l.keys
    IN  IF configured
        THEN [l EXCEPT !.next = @ + 1,
                       !.tried = Append(@, [provider |-> provider, outcome |-> outcome]),
                       !.result = ProviderReturn(provider, l.query, outcome)]
        ELSE [l EXCEPT !.next = @ + 1]

\* one if statement of the chain (search.py lines 173-180, web_search.py
\* lines 69-76): the provider is called when it is configured and no
\* provider before it has succeeded
TryProvider(l, outcome) ==
    LET provider == ChainOrder(l.chain)[l.next]
        configured == provider \notin KeyedProviders \/ provider \in l.keys
    IN  IF l.result = None /\ configured
        THEN [l EXCEPT !.next = @ + 1,
                       !.tried = Append(@, [provider |-> provider, outcome |-> outcome]),
                       !.result = ProviderReturn(provider, l.query, outcome)]
        ELSE [l EXCEPT !.next = @ + 1]

\* search.py line 182, web_search.py lines 78-81
SearchReturn(l) ==
    [l EXCEPT !.pc = "returned",
              !.value = IF l.result # None THEN l.result
                        ELSE IF l.chain = "engine" THEN None
                        ELSE <<"Web search failed for", l.query>>]

SearchStepTo(l) ==
    /\ lib' = l
    /\ UNCHANGED <<cfg, messages, call, nChats, wf, events, gw>>

SearchTry ==
    /\ lib.pc = "chain"
    /\ lib.next <= Len(ChainOrder(lib.chain))
    /\ \E outcome \in ProviderOutcomes : SearchStepTo(TryProvider(lib, outcome))

SearchReturns ==
    /\ lib.pc = "chain"
    /\ lib.next > Len(ChainOrder(lib.chain))
    /\ SearchStepTo(SearchReturn(lib))

InitSearch ==
    /\ cfg \in {c \in Configs : /\ c.max_iterations = 1
                                /\ c.max_history = 1
                                /\ c.tools /\ c.dispatch
                                /\ c.enable_hedging_safety_net}
    /\ messages = <<>>
    /\ call = IdleCall
    /\ nChats = 0
    /\ wf = IdleWf
    /\ events = <<>>
    /\ gw = IdleGw
    /\ \E chain \in {"engine", "tool"}, q \in SearchQueries :
          \E keys \in SUBSET (KeyedProviders \cap
                                {ChainOrder(chain)[k] : k \in 1..Len(ChainOrder(chain))}) :
              lib = [pc |-> "chain", chain |-> chain, query |-> q, keys |-> keys,
                     next |-> 1, tried |-> <<>>, result |-> None, value |-> None]

NextSearch ==
    \/ SearchTry
    \/ SearchReturns

SpecSearch == InitSearch /\ [][NextSearch]_vars

\* the position of a provider in the chain
ChainPos(chain, provider) ==
    CHOOSE k \in 1..Len(ChainOrder(chain)) : ChainOrder(chain)[k] = provider

\* the providers of the chain that are configured
Configured(l) ==
    {pr \in {ChainOrder(l.chain)[k] : k \in 1..Len(ChainOrder(l.chain))} :
        pr \notin KeyedProviders \/ pr \in l.keys}

\* C26: the chain calls configured providers only, in the fixed order and
\* each at most once; a provider is called only after every configured
\* provider before it was called and failed; nothing is called after a
\* success; the value returned is the result of the first provider that
\* succeeded, and the failure value (None in engine.search, the failure
\* string in the tool) when all failed; the search never raises.
C26_FallbackChain ==
    lib.pc \in {"chain", "returned"} =>
        LET t == lib.tried
        IN  /\ \A k \in 1..Len(t) : t[k].provider \in Configured(lib)
            /\ \A j, k \in 1..Len(t) :
                  j < k => ChainPos(lib.chain, t[j].provider) < ChainPos(lib.chain, t[k].provider)
            /\ \A k \in 1..Len(t) :
                  \A pr \in Configured(lib) :
                      ChainPos(lib.chain, pr) < ChainPos(lib.chain, t[k].provider) =>
                          \E j \in 1..(k - 1) :
                              t[j].provider = pr /\ t[j].outcome # "results"
            /\ \A k \in 1..(Len(t) - 1) : t[k].outcome # "results"
            /\ lib.pc = "returned" =>
                  /\ Len(t) >= 1
                  /\ IF t[Len(t)].outcome = "results"
                     THEN lib.value = <<t[Len(t)].provider, "results for", lib.query>>
                     ELSE /\ {t[k].provider : k \in 1..Len(t)} = Configured(lib)
                          /\ lib.value = IF lib.chain = "engine" THEN None
                                         ELSE <<"Web search failed for", lib.query>>

\* the tool's chain without a Serper key: Tavily raised, Brave answered,
\* DuckDuckGo was not called
C26_Witness ==
    /\ lib.pc = "returned"
    /\ lib.chain = "tool"
    /\ lib.keys = {"tavily", "brave"}
    /\ Len(lib.tried) = 2
    /\ lib.tried[1] = [provider |-> "tavily", outcome |-> "exception"]
    /\ lib.tried[2] = [provider |-> "brave", outcome |-> "results"]
    /\ lib.value = <<"brave", "results for", lib.query>>


----------------------------------------------------------------------------
(* Two agent-reply tasks of one WebSocket session inside runner.chat at
   the same time, and set_model while they run.  The tasks share the one
   Orchestrator and its history; gw.tasks[i].c are the locals of the chat
   call of task i.  A task runs from one await to the next without
   interruption, as asyncio schedules it. *)

\* asyncio.create_task(_do_agent_reply(text)) of a chat message
ChatTask(text) ==
    [pc |-> "start", text |-> text, stt |-> "clear", tts |-> "none", c |-> IdleCall]

TaskStepTo(i, r) ==
    /\ gw' = [gw EXCEPT !.tasks[i].c = r.c,
                        !.tasks[i].pc = IF r.c.pc \in {"returned", "raised"}
                                        THEN "done" ELSE "chat"]
    /\ messages' = r.m
    /\ UNCHANGED <<cfg, call, nChats, wf, events, lib>>

\* the chat call of task i is suspended at pc
TaskAt(i, pc) == gw.tasks[i].pc = "chat" /\ gw.tasks[i].c.pc = pc

TkEnter ==
    \E i \in 1..Len(gw.tasks) :
        /\ gw.tasks[i].pc = "start"
        /\ TaskStepTo(i, ChatEnter(messages, cfg, gw.tasks[i].text))

TkThinking ==
    \E i \in 1..Len(gw.tasks) :
        /\ TaskAt(i, "begun")
        /\ TaskStepTo(i, [c |-> [gw.tasks[i].c EXCEPT
                                    !.pc = "gen", !.pre = <<>>,
                                    !.trace = Append(@, Tr("status", "thinking", 0))],
                          m |-> messages])

\* the answers of the provider in the two tasks: a plain answer, a hedging
\* answer, one structured search call
TaskResponses ==
    { r \in ToolUseResponses :
        \/ r.calls = <<WebSearchCall>>
        \/ r.text \in {<<"As an AI">>, <<THINK_OPEN, "hm", THINK_CLOSE, "It is sunny.">>} }

TkGenerateReturns ==
    \E i \in 1..Len(gw.tasks) :
        /\ TaskAt(i, "gen")
        /\ \E r \in TaskResponses :
              /\ r.calls # <<>> => ToolsForCall(gw.tasks[i].c, cfg)
              /\ TaskStepTo(i, GenReturn(gw.tasks[i].c, messages, cfg, r.text, r.calls))

TkGenerateRaises ==
    \E i \in 1..Len(gw.tasks) :
        /\ TaskAt(i, "gen")
        /\ TaskStepTo(i, GenRaise(gw.tasks[i].c, messages))

TkDispatch ==
    \E i \in 1..Len(gw.tasks) :
        /\ TaskAt(i, "dispatch")
        /\ TaskStepTo(i, DispatchStep(gw.tasks[i].c, messages, cfg, "ok"))

TkRetryReturns ==
    \E i \in 1..Len(gw.tasks) :
        /\ TaskAt(i, "retry")
        /\ \E t \in PlainTexts : TaskStepTo(i, RetryReturn(gw.tasks[i].c, messages, cfg, t))

TkRetryRaises ==
    \E i \in 1..Len(gw.tasks) :
        /\ TaskAt(i, "retry")
        /\ TaskStepTo(i, RetryRaise(gw.tasks[i].c, messages))

\* set_model, lines 459-470: clear_history while tasks are in flight
TkSetModel ==
    /\ gw.nMsgs < MaxClientMsgs
    /\ gw' = WsSend(Received(gw), <<"model_set">>)
    /\ messages' = <<>>
    /\ UNCHANGED <<cfg, call, nChats, wf, events, lib>>

InitTasks ==
    /\ cfg \in {c \in Configs : /\ c.max_iterations = 2
                                /\ c.max_history = MaxHistBound
                                /\ c.tools /\ c.dispatch
                                /\ ~c.enable_hedging_safety_net}
    /\ messages = <<>>
    /\ call = IdleCall
    /\ nChats = 0
    /\ wf = IdleWf
    /\ events = <<>>
    /\ gw = [IdleGw EXCEPT !.nMsgs = 2,
                           !.sent = <<"transcription", "transcription">>,
                           !.tasks = << ChatTask(<<"what is the weather in Austin">>),
                                        ChatTask(<<"hello there">>) >>]
    /\ lib = IdleLib

NextTasks ==
    \/ TkEnter
    \/ TkThinking
    \/ TkGenerateReturns
    \/ TkGenerateRaises
    \/ TkDispatch
    \/ TkRetryReturns
    \/ TkRetryRaises
    \/ TkSetModel

SpecTasks == InitTasks /\ [][NextTasks]_vars

\* no chat call is in flight
NoCallInFlight == \A i \in 1..Len(gw.tasks) : gw.tasks[i].pc \in {"start", "done"}

\* the hedging directive is a message of m
HoldsDirective(m) == \E k \in 1..Len(m) : m[k] = Msg("user", DIRECTIVE)

\* C27: whatever the interleaving of two chat calls and of clear_history
\* with them, when no call is in flight the history satisfies the
\* tool-group invariant and holds no hedging directive.
C27_InterleavingsKeepHistory ==
    NoCallInFlight => (ToolGroupInv(messages) /\ ~HoldsDirective(messages))


\* C28: for every provider setting, the empty one included, the vendor
\* format in which the tool groups of the history were converted is the
\* format of the vendor that the generation of the same iteration calls.
C28_FormatMatchesRoute ==
    lib.pc = "generated" => FormatOf(lib.provider) = lib.routed

----------------------------------------------------------------------------
(* The history bound on the workflow path *)

\* C29: at the moment a WorkflowRunner.chat call that was routed to a
\* workflow returns, the history is at most max_history plus the messages
\* that this call appended (those after the history at entry).
C29_WorkflowHistoryBounded ==
    wf.pc = "done" =>
        Len(messages) <= cfg.max_history + (Len(messages) - Len(wf.hist0))

----------------------------------------------------------------------------
(* Dispatch failures inside a workflow *)

\* the steps whose dispatch the claim is about
RecoveringSteps ==
    {"search_evidence", "search_counter", "initial_search", "initial_lookup"}

\* C30: a dispatch that raised during a direct step or during the search
\* of initial_search / initial_lookup is stored as the result string of
\* that step and does not abort the workflow.
C30_DispatchFailureRecovered ==
    \A k \in 1..Len(events) :
        (/\ events[k].type = "dispatch"
         /\ events[k].status = "raise"
         /\ events[k].id \in RecoveringSteps) =>
            /\ wf.step_results[events[k].id] =
                   <<"Search failed: ", "search backend down">>
            /\ ~(wf.aborted /\ wf.error = "search backend down")

----------------------------------------------------------------------------
(* The recovery paths and the last iteration of Orchestrator.chat *)

\* C31: after the regeneration of the post-tool hedging retry failed, the
\* directive injected for the retry is not in the history.
C31_FailedRetryLeavesNoDirective ==
    call.raisedBy = "retry" => ~HoldsDirective(messages)

\* a tool-use generation of the final iteration returns
FinalGenReturns ==
    /\ call.pc = "gen"
    /\ call.iteration = cfg.max_iterations - 1
    /\ call'.gens = call.gens + 1
    /\ call'.pc # "raised"

----------------------------------------------------------------------------
(* One chat call under fair scheduling: every provider, search and dispatch *)
(* call that was issued returns or raises.                                  *)

\* the last call of a behaviour, on an empty history or on the history an
\* earlier call left
InitOneChat ==
    /\ cfg \in Configs
    /\ messages \in {<<>>, HistoryWithGroup(cfg)}
    /\ call = IdleCall
    /\ nChats = MaxChats - 1
    /\ wf = IdleWf
    /\ events = <<>>
    /\ gw = IdleGw
    /\ lib = IdleLib

SpecOneChat == InitOneChat /\ [][Next]_vars /\ WF_vars(Next)

\* C33: a chat call issues at most max_iterations tool-use generation
\* calls and at most 2 plain generation calls, and it ends: it returns or
\* raises.
C33_ChatTerminates ==
    /\ [](/\ call.gens - call.plainGens <= cfg.max_iterations
          /\ call.plainGens <= 2)
    /\ (call.pc = "begun") ~> (call.pc \in {"returned", "raised"})

\* a call that returned after the query extraction and the regeneration
\* of the safety net, on a history that held a tool group
C33_Witness ==
    /\ call.pc = "returned"
    /\ call.sn = "found"
    /\ call.plainGens = 2
    /\ call.gens = 3
    /\ Len(messages) > 2

----------------------------------------------------------------------------
(* One workflow execution under fair scheduling *)

SpecWorkflowLive ==
    InitWorkflow /\ [][NextWorkflow]_vars /\ WF_vars(NextWorkflow)

\* the positions of the trace that hold an event of this type
PositionsOf(ev, type) == {k \in 1..Len(ev) : ev[k].type = type}

\* C34: workflow_start is emitted once, before every other event of the
\* execution; workflow_exit is emitted once, after all of them, on success
\* and on abort; an execution that started reaches its exit.
C34_StartExitBracket ==
    /\ [](wf.pc # "idle" =>
            /\ PositionsOf(events, "workflow_start") = {1}
            /\ PositionsOf(events, "workflow_exit") =
                   IF wf.pc = "done" THEN {Len(events)} ELSE {})
    /\ (\E k \in 1..Len(events) : events[k].type = "workflow_start")
          ~> (wf.pc = "done" /\ events[Len(events)].type = "workflow_exit")

\* an aborted execution closed with its exit event after state and
\* narration events
C34_Witness ==
    /\ wf.pc = "done"
    /\ wf.aborted
    /\ events[Len(events)].type = "workflow_exit"
    /\ PositionsOf(events, "narration") # {}
    /\ Cardinality(PositionsOf(events, "workflow_state")) >= 3

----------------------------------------------------------------------------
(* The queries of the fact_check searches *)

\* the queries the dispatches of a direct step were made with
DispatchArgs(ev, step_id) ==
    {ev[k].arg : k \in {j \in 1..Len(ev) : ev[j].type = "dispatch" /\ ev[j].id = step_id}}

\* C35: when extract_claim returned a JSON object, search_evidence is
\* dispatched with its support_query and search_counter with its
\* counter_query when the field is non-empty, and with the user query
\* otherwise; search_evidence is never dispatched with the counter_query.
C35_FactCheckQueries ==
    wf.claimObj.kind = "dict" =>
        LET support_query == DictGet(wf.claimObj.items, "support_query", "")
            counter_query == DictGet(wf.claimObj.items, "counter_query", "")
            fallback == QueryOf(wf.user_query)
        IN  /\ DispatchArgs(events, "search_evidence") \subseteq
                   {IF support_query # "" THEN support_query ELSE fallback}
            /\ DispatchArgs(events, "search_counter") \subseteq
                   {IF counter_query # "" THEN counter_query ELSE fallback}
            /\ counter_query # "" =>
                   counter_query \notin DispatchArgs(events, "search_evidence")

----------------------------------------------------------------------------
(* The caps on the queries of a loop step *)

\* C36: after decompose search_queries holds at most 5 queries and after
\* evaluate_gaps at most 3, whatever the model returned, and the loop step
\* that follows makes at most as many dispatches.
C36_QueriesCapped ==
    (wf.pc # "idle" /\ wf.step_idx >= 2) =>
        LET cap == IF wf.workflow_id = "research_compare" THEN 5 ELSE 3
            loop_id == StepIdsOf(wf.workflow_id)[3]
        IN  wf.workflow_id \in {"research_compare", "deep_research"} =>
                /\ Len(wf.search_queries) <= cap
                /\ Cardinality({k \in 1..Len(events) :
                                   /\ events[k].type = "dispatch"
                                   /\ events[k].id = loop_id}) <= cap

----------------------------------------------------------------------------
(* Thinking blocks in replies *)

\* the text holds a <think>...</think> block
HasThinkBlock(text) == ThinkSub(text) # text

\* C37: no reply returned by chat and no assistant message of the history
\* holds a <think>...</think> block, whichever path produced the text.
C37_NoThinkBlocks ==
    /\ call.pc = "returned" => ~HasThinkBlock(call.reply)
    /\ wf.pc = "done" => ~HasThinkBlock(wf.reply)
    /\ \A k \in 1..Len(messages) :
          messages[k].role = "assistant" => ~HasThinkBlock(messages[k].content)

----------------------------------------------------------------------------
(* Event callbacks that raise *)

\* C38: an exception raised by an event callback is swallowed: the step
\* during which on_debug raises leaves the execution in the state it has
\* when on_debug succeeds (same results, same queries, same reply, no
\* abort), whatever the generation returned and the dispatch did.
C38_CallbackErrorsSwallowed ==
    (wf.pc = "step" /\ CurrentStep(wf).step_type = "llm") =>
        \A text \in WfOutputs(CurrentStep(wf).id), disp \in DispatchOutcomes :
            LlmStep(wf, events, cfg, "ok", text, "raise", disp).w =
                LlmStep(wf, events, cfg, "ok", text, "ok", disp).w

----------------------------------------------------------------------------
(* The two recovery paths of one chat call *)

RecoveryPcs == {"retry", "sn_extract", "sn_search", "sn_regen"}

\* the safety-net search of this call has been entered
SafetyNetRan ==
    call.pc \in {"sn_extract", "sn_search", "sn_regen"} \/ call.sn # ""

\* C39: in one chat call at most one of the post-tool hedging retry and
\* the safety-net search runs, and it runs at most once, whatever the
\* regenerated reply contains.
C39_OneRecoveryOnce ==
    /\ [](~(call.retried /\ SafetyNetRan))
    /\ [](call.retried => call.plainGens <= 1)
    /\ [][call.pc \in RecoveryPcs => call'.pc \notin {"retry", "sn_extract"}]_vars

\* the retry ran, its regenerated reply hedges again, and chat returned it
C39_Witness ==
    /\ call.retried
    /\ call.pc = "returned"
    /\ call.plainGens = 1
    /\ _reply_is_hedging(call.reply)
    /\ cfg.enable_hedging_safety_net
    /\ cfg.tools

----------------------------------------------------------------------------
(* Program order of the events of one chat call *)

\* C40: status(thinking) is emitted before the first provider call; every
\* dispatch comes right after the tool_call event of the same call; the
\* calls of a group are dispatched one at a time in list order, each result
\* being in the history before the next call is dispatched.
C40_EventsInProgramOrder ==
    LET t == call.trace
        n == Len(messages)
    IN  /\ \A k \in 1..Len(t) :
              /\ t[k].ev = "generate" =>
                    k > 1 /\ t[1] = Tr("status", "thinking", 0)
              /\ t[k].ev = "dispatch" =>
                    k > 1 /\ t[k - 1] = Tr("tool_call", t[k].arg, t[k].idx)
              /\ t[k].ev = "tool_call" =>
                    /\ k > 1
                    /\ IF t[k].idx = 0 THEN t[k - 1].ev = "generate"
                       ELSE t[k - 1].ev = "result" /\ t[k - 1].idx = t[k].idx - 1
        /\ call.pc = "begun" => call.gens = 0
        /\ call.pc = "dispatch" =>
              /\ n > call.i
              /\ messages[n - call.i] = AssistantCalls(call.text, call.tool_calls)
              /\ \A j \in 1..call.i :
                    /\ IsToolMsg(messages[n - call.i + j])
                    /\ messages[n - call.i + j].content[2] = call.tool_calls[j].name
                    /\ t[Len(t) - 3 * (call.i - j)] =
                          Tr("result", call.tool_calls[j].name, j - 1)

\* the second call of a group of two is about to be dispatched, the first
\* having failed
C40_Witness ==
    /\ call.pc = "dispatch"
    /\ Len(call.tool_calls) = 2
    /\ call.i = 1
    /\ ~call.dlog[Len(call.dlog)].ok
    /\ call.iteration = 1

====
